---- MODULE Spec2Model ----
(***************************************************************************)
(* NJ Black Press Database: the client-side filter / search / sort /       *)
(* pagination engine of the archive page (docs/js/archive.js) and of the   *)
(* home page (docs/js/app.js), as a state machine over each script's       *)
(* `state` object, the search input, the debounce timer and the page's     *)
(* location; with the decade timeline (timeline.js: decade windows and     *)
(* their active / founded counts) and the detail page (publication.js:     *)
(* the id of the query string, the two data documents, the lookup and the  *)
(* error state).                                                           *)
(*                                                                         *)
(* Text that the code inspects (toLowerCase, trim, includes,               *)
(* localeCompare) is a sequence of one-character strings; values the code  *)
(* only compares with === (decade, status, format, sort, view) are plain   *)
(* strings.  A publication is a record; an optional field that is absent   *)
(* (or null) in the JSON document is absent from the record's DOMAIN.      *)
(***************************************************************************)
EXTENDS Integers, Sequences, FiniteSets, TLC

VARIABLES
  doc,          \* the script that runs: "archive" (archive.js), "app" (app.js),
                \* "timeline" (timeline.js), "publication" (publication.js),
                \* "featured" (the featured showcase)
  pc,           \* where init() stands: "start", "loading", "ready", "failed"
  state,        \* the script's state object
  searchInput,  \* the value of the search input element
  timeout,      \* the timers of the page that are pending, and the handle the
                \* closure of debounce holds in its variable `timeout`
  location,     \* window.location.search without its question mark
  dom,          \* what the page shows
  lastWrite     \* the function that last wrote the filtered list, or how the
                \* load of the detail page ended (history, read by the
                \* properties only)

vars == <<doc, pc, state, searchInput, timeout, location, dom, lastWrite>>

---------------------------------------------------------------------------
(* Bounds of the model *)

\* longest record set drawn freely from Pool, beside the sample documents
MaxRecords == 0

\* most uncaught exceptions the model follows a page through
MaxErrors == 1

---------------------------------------------------------------------------
(* JavaScript string built-ins, over sequences of characters *)

Upper == <<"A","B","C","D","E","F","G","H","I","J","K","L","M",
           "N","O","P","Q","R","S","T","U","V","W","X","Y","Z">>

Lower == <<"a","b","c","d","e","f","g","h","i","j","k","l","m",
           "n","o","p","q","r","s","t","u","v","w","x","y","z">>

\* collation order of the characters at primary strength: white space,
\* punctuation, digits, letters
CollationOrder == <<" ", "-", "0","1","2","3","4","5","6","7","8","9">> \o Lower

IndexOf(seq, c) ==
  IF \E i \in 1..Len(seq) : seq[i] = c
  THEN CHOOSE i \in 1..Len(seq) : seq[i] = c
  ELSE 0

\* the characters a query string escapes
Reserved == {"&", "=", "+", "%"}

\* the characters of the model's texts
Chars ==
  {CollationOrder[i] : i \in 1..Len(CollationOrder)} \cup {Upper[i] : i \in 1..Len(Upper)}
  \cup Reserved

\* the JSON type of a sequence: a string is a sequence of characters, an array
\* of strings a sequence of strings
CharNames == {ToString(c) : c \in Chars}
IsText(v) == \A i \in 1..Len(v) : ToString(v[i]) \in CharNames
IsArray(v) == ~ IsText(v)

\* the lower-case form of each character
LowerChar == [c \in Chars |-> IF IndexOf(Upper, c) = 0 THEN c ELSE Lower[IndexOf(Upper, c)]]

\* String.prototype.toLowerCase
toLowerCase(s) == [i \in 1..Len(s) |-> LowerChar[s[i]]]

RECURSIVE trimStart(_)
trimStart(s) == IF Len(s) > 0 /\ s[1] = " " THEN trimStart(Tail(s)) ELSE s

RECURSIVE trimEnd(_)
trimEnd(s) ==
  IF Len(s) > 0 /\ s[Len(s)] = " " THEN trimEnd(SubSeq(s, 1, Len(s) - 1)) ELSE s

\* String.prototype.trim
trim(s) == trimEnd(trimStart(s))

\* String.prototype.includes
includes(s, q) == \E i \in 0..(Len(s) - Len(q)) : SubSeq(s, i + 1, i + Len(q)) = q

\* the collation weights of each character: primary (the letter, whatever its
\* case) and tertiary (lower case before upper case)
PrimaryWeight == [c \in Chars |-> IndexOf(CollationOrder, LowerChar[c])]

TertiaryWeight == [c \in Chars |-> IF IndexOf(Upper, c) = 0 THEN 0 ELSE 1]

\* compare a and b from position i on by the weights w: -1, 0 or 1
RECURSIVE CompareFrom(_, _, _, _)
CompareFrom(a, b, w, i) ==
  IF i > Len(a) THEN (IF i > Len(b) THEN 0 ELSE -1)
  ELSE IF i > Len(b) THEN 1
  ELSE IF w[a[i]] < w[b[i]] THEN -1
  ELSE IF w[a[i]] > w[b[i]] THEN 1
  ELSE CompareFrom(a, b, w, i + 1)

\* String.prototype.localeCompare with the default options: letters compare
\* without regard to case first; case (lower before upper) breaks the tie
localeCompare(a, b) ==
  LET p == CompareFrom(a, b, PrimaryWeight, 1)
  IN IF p # 0 THEN p ELSE CompareFrom(a, b, TertiaryWeight, 1)

---------------------------------------------------------------------------
(* The data document *)

\* the sentinel 'all' of the city filter (city values are inspected text)
AllCity == <<"a","l","l">>

Afro == <<"A","f","r","o">>
Echo == <<"E","c","h","o">>
Newark == <<"N","e","w","a","r","k">>
JerseyCity == <<"J","e","r","s","e","y"," ","C","i","t","y">>
Print_ == <<"P","r","i","n","t">>
Online == <<"O","n","l","i","n","e">>

\* name hit, no isActive flag, no yearCeased
PubA == [name |-> Afro, city |-> JerseyCity, yearFounded |-> 1890,
         decade |-> "1890s", medium |-> Print_]

\* ceased but flagged active; the query hits historicalNotes only
PubB == [name |-> Echo, city |-> Newark, yearFounded |-> 1920,
         yearCeased |-> 1950, isActive |-> TRUE, decade |-> "1920s",
         medium |-> Online, historicalNotes |-> Afro]

\* unknown founding year, flagged ceased; the query hits a tag only
PubC == [name |-> Echo, isActive |-> FALSE, tags |-> <<Newark, Afro>>]

\* flagged active, still published; the query hits publishers
PubD == [name |-> <<"e","c","h","o">>, city |-> Newark, yearFounded |-> 1890,
         isActive |-> TRUE, decade |-> "1890s", publishers |-> Afro,
         missionStatement |-> JerseyCity, primaryFocus |-> Echo]

Pool == <<PubA, PubB, PubC, PubD>>

\* publishers as an array of strings; tags as one string
PubE == [name |-> Echo, publishers |-> <<Afro, Newark>>]
PubF == [name |-> Echo, tags |-> Newark]

WithId(body, i) == [id |-> i] @@ body

\* state.perPage
perPage == 24

Numbered(bodies) == [i \in 1..Len(bodies) |-> WithId(bodies[i], i)]

\* the records of a document longer than one page
Brief == [name |-> <<"b">>, yearFounded |-> 1890, decade |-> "1890s", isActive |-> TRUE]
Blank == [name |-> <<"a">>]

\* the record sets the data document may hold: every sequence of at most
\* MaxRecords records of Pool; the whole Pool with founding years 1920, unknown,
\* 1890, 1890; one document of perPage + 1 records; and one whose records
\* hold publishers as an array and tags as a string.  Ids are numbered in
\* document order
Documents ==
  UNION { { Numbered([i \in 1..n |-> Pool[f[i]]]) : f \in [1..n -> 1..Len(Pool)] } :
          n \in 0..MaxRecords }
  \cup { Numbered(<<PubB, PubC, PubA, PubD>>) }
  \cup { Numbered([i \in 1..(perPage + 1) |-> IF i % 2 = 1 THEN Brief ELSE Blank]) }
  \cup { Numbered(<<PubE, PubF>>) }

---------------------------------------------------------------------------
(* Reading a publication as the JavaScript does *)

\* pub.f is a non-empty string (a truthy text value)
HasText(pub, f) == f \in DOMAIN pub /\ Len(pub[f]) > 0

\* pub.f || ''
TextOr(pub, f) == IF f \in DOMAIN pub THEN pub[f] ELSE <<>>

\* pub.f is a truthy number
HasYear(pub, f) == f \in DOMAIN pub /\ pub[f] # 0

\* pub.f || dflt
YearOr(pub, f, dflt) == IF HasYear(pub, f) THEN pub[f] ELSE dflt

\* pub.isActive === b
IsActiveIs(pub, b) == "isActive" \in DOMAIN pub /\ pub.isActive = b

---------------------------------------------------------------------------
(* Sorting: Array.prototype.sort with the comparators of sortPublications *)

SortKeys == {"name", "year-asc", "year-desc", "city"}

\* the comparator of each case of the switch
\* year-desc falling back to 9999, as year-asc does
SortCompareSameFallback(key, a, b) ==
  CASE key = "name"      -> localeCompare(TextOr(a, "name"), TextOr(b, "name"))
    [] key = "year-asc"  -> YearOr(a, "yearFounded", 9999) - YearOr(b, "yearFounded", 9999)
    [] key = "year-desc" -> YearOr(b, "yearFounded", 9999) - YearOr(a, "yearFounded", 9999)
    [] key = "city"      -> localeCompare(TextOr(a, "city"), TextOr(b, "city"))

SortCompare(key, a, b) ==
  CASE key = "name"      -> localeCompare(TextOr(a, "name"), TextOr(b, "name"))
    [] key = "year-asc"  -> YearOr(a, "yearFounded", 9999) - YearOr(b, "yearFounded", 9999)
    [] key = "year-desc" -> YearOr(b, "yearFounded", 0) - YearOr(a, "yearFounded", 0)
    [] key = "city"      -> localeCompare(TextOr(a, "city"), TextOr(b, "city"))

\* an insertion that puts x in front of the elements it compares equal to
RECURSIVE InsertAtBeforeEqual(_, _, _, _)
InsertAtBeforeEqual(sorted, x, key, n) ==
  IF n = 0 \/ SortCompare(key, sorted[n], x) < 0 THEN n
  ELSE InsertAtBeforeEqual(sorted, x, key, n - 1)

\* how many of sorted[1..n] stay in front of x: x goes behind the last element
\* that does not compare greater than it
RECURSIVE InsertAt(_, _, _, _)
InsertAt(sorted, x, key, n) ==
  IF n = 0 \/ SortCompare(key, sorted[n], x) <= 0 THEN n
  ELSE InsertAt(sorted, x, key, n - 1)

InsertSorted(sorted, x, key) ==
  LET n == InsertAt(sorted, x, key, Len(sorted))
  IN SubSeq(sorted, 1, n) \o <<x>> \o SubSeq(sorted, n + 1, Len(sorted))

\* Array.prototype.sort(compare): a stable sort (ECMAScript 2019)
RECURSIVE ArraySortTo(_, _, _)
ArraySortTo(list, key, n) ==
  IF n = 0 THEN <<>> ELSE InsertSorted(ArraySortTo(list, key, n - 1), list[n], key)

ArraySort(list, key) == ArraySortTo(list, key, Len(list))

\* a switch whose default case sorts by name
sortPublicationsDefaultName(list, key) ==
  ArraySort(list, IF key \in SortKeys THEN key ELSE "name")

\* sortPublications: a switch over the sort key with no default case
sortPublications(list, key) == IF key \in SortKeys THEN ArraySort(list, key) ELSE list

---------------------------------------------------------------------------
(* archive.js: applyFilters, one definition per filter of the function *)

\* (pub.f && pub.f.toLowerCase().includes(query)), where it does not throw
ArchiveFieldMatch(pub, f, query) ==
  HasText(pub, f) /\ IsText(pub[f]) /\ includes(toLowerCase(pub[f]), query)

\* pub.f.toLowerCase is not a function: pub.f is an array
ArchiveFieldThrows(pub, f) == HasText(pub, f) /\ IsArray(pub[f])

\* (pub.tags && pub.tags.some(t => t.toLowerCase().includes(query))), where
\* it does not throw
ArchiveTagsMatch(pub, query) ==
  /\ "tags" \in DOMAIN pub /\ IsArray(pub.tags)
  /\ \E i \in 1..Len(pub.tags) : includes(toLowerCase(pub.tags[i]), query)

\* pub.tags.some is not a function: pub.tags is a non-empty string
ArchiveTagsThrows(pub) == HasText(pub, "tags") /\ IsText(pub.tags)

\* the fields the predicate of the search filter reads, in its order
ArchiveSearchFields ==
  <<"name", "city", "missionStatement", "historicalNotes", "primaryFocus", "publishers">>

\* the predicate throws a TypeError on pub: no field in front of the throwing
\* expression matches (|| stops at the first match)
ArchiveSearchThrows(pub, query) ==
  \/ \E i \in 1..Len(ArchiveSearchFields) :
       /\ ArchiveFieldThrows(pub, ArchiveSearchFields[i])
       /\ \A j \in 1..(i - 1) : ~ ArchiveFieldMatch(pub, ArchiveSearchFields[j], query)
  \/ /\ ArchiveTagsThrows(pub)
     /\ \A j \in 1..Len(ArchiveSearchFields) :
          /\ ~ ArchiveFieldMatch(pub, ArchiveSearchFields[j], query)
          /\ ~ ArchiveFieldThrows(pub, ArchiveSearchFields[j])

ArchiveSearchMatch(pub, query) ==
  \/ ArchiveFieldMatch(pub, "name", query)
  \/ ArchiveFieldMatch(pub, "city", query)
  \/ ArchiveFieldMatch(pub, "missionStatement", query)
  \/ ArchiveFieldMatch(pub, "historicalNotes", query)
  \/ ArchiveFieldMatch(pub, "primaryFocus", query)
  \/ ArchiveFieldMatch(pub, "publishers", query)
  \/ ArchiveTagsMatch(pub, query)

ArchiveSearchFilter(list, filters) ==
  IF Len(filters.search) > 0
  THEN LET query == toLowerCase(filters.search)
       IN SelectSeq(list, LAMBDA pub : ArchiveSearchMatch(pub, query))
  ELSE list

\* the search filter throws on the list
ArchiveSearchFilterThrows(list, filters) ==
  /\ Len(filters.search) > 0
  /\ \E i \in 1..Len(list) : ArchiveSearchThrows(list[i], toLowerCase(filters.search))

ArchiveCityFilter(list, filters) ==
  IF filters.city # AllCity
  THEN SelectSeq(list, LAMBDA pub : "city" \in DOMAIN pub /\ pub.city = filters.city)
  ELSE list

ArchiveDecadeFilter(list, filters) ==
  IF filters.decade # "all"
  THEN SelectSeq(list, LAMBDA pub : "decade" \in DOMAIN pub /\ pub.decade = filters.decade)
  ELSE list

ArchiveStatusFilter(list, filters) ==
  IF filters.status # "all"
  THEN IF filters.status = "active"
       THEN SelectSeq(list, LAMBDA pub : ~IsActiveIs(pub, FALSE) /\ ~HasYear(pub, "yearCeased"))
       ELSE SelectSeq(list, LAMBDA pub : IsActiveIs(pub, FALSE) \/ HasYear(pub, "yearCeased"))
  ELSE list

\* the filters in the order applyFilters applies them, before the sort
ArchiveFiltered(publications, filters) ==
  ArchiveStatusFilter(
    ArchiveDecadeFilter(
      ArchiveCityFilter(
        ArchiveSearchFilter(publications, filters), filters), filters), filters)

---------------------------------------------------------------------------
(* app.js: applyFilters, one definition per filter of the function *)

\* pub.f?.toLowerCase().includes(query), where it does not throw
AppFieldMatch(pub, f, query) ==
  f \in DOMAIN pub /\ IsText(pub[f]) /\ includes(toLowerCase(pub[f]), query)

\* pub.f.toLowerCase is not a function: pub.f is an array
AppFieldThrows(pub, f) == f \in DOMAIN pub /\ IsArray(pub[f])

\* the fields the predicate of the search filter reads, in its order
AppSearchFields == <<"name", "city", "primaryFocus", "missionStatement", "publishers">>

\* the predicate throws a TypeError on pub
AppSearchThrows(pub, query) ==
  \E i \in 1..Len(AppSearchFields) :
    /\ AppFieldThrows(pub, AppSearchFields[i])
    /\ \A j \in 1..(i - 1) : ~ AppFieldMatch(pub, AppSearchFields[j], query)

AppSearchMatch(pub, query) ==
  \/ AppFieldMatch(pub, "name", query)
  \/ AppFieldMatch(pub, "city", query)
  \/ AppFieldMatch(pub, "primaryFocus", query)
  \/ AppFieldMatch(pub, "missionStatement", query)
  \/ AppFieldMatch(pub, "publishers", query)

AppSearchFilter(list, filters) ==
  IF Len(filters.search) > 0
  THEN LET query == filters.search
       IN SelectSeq(list, LAMBDA pub : AppSearchMatch(pub, query))
  ELSE list

\* a city filter without the 'all' sentinel
\* the search filter throws on the list
AppSearchFilterThrows(list, filters) ==
  /\ Len(filters.search) > 0
  /\ \E i \in 1..Len(list) : AppSearchThrows(list[i], filters.search)

AppCityFilterNoSentinel(list, filters) ==
  SelectSeq(list, LAMBDA pub : "city" \in DOMAIN pub /\ pub.city = filters.city)

AppCityFilter(list, filters) ==
  IF filters.city # AllCity
  THEN SelectSeq(list, LAMBDA pub : "city" \in DOMAIN pub /\ pub.city = filters.city)
  ELSE list

AppDecadeFilter(list, filters) ==
  IF filters.decade # "all"
  THEN SelectSeq(list, LAMBDA pub : "decade" \in DOMAIN pub /\ pub.decade = filters.decade)
  ELSE list

AppStatusFilter(list, filters) ==
  IF filters.status # "all"
  THEN LET isActive == (filters.status = "active")
       IN SelectSeq(list, LAMBDA pub : IsActiveIs(pub, isActive))
  ELSE list

\* const medium = pub.medium?.toLowerCase() || ''
AppMedium(pub) == IF "medium" \in DOMAIN pub THEN toLowerCase(pub.medium) ELSE <<>>

AppFormatMatch(pub, format) ==
  IF format = "print" THEN includes(AppMedium(pub), <<"p","r","i","n","t">>)
  ELSE IF format = "digital"
  THEN \/ includes(AppMedium(pub), <<"d","i","g","i","t","a","l">>)
       \/ includes(AppMedium(pub), <<"o","n","l","i","n","e">>)
  ELSE TRUE

AppFormatFilter(list, filters) ==
  IF filters.format # "all"
  THEN SelectSeq(list, LAMBDA pub : AppFormatMatch(pub, filters.format))
  ELSE list

\* the decade stage filtering state.publications again, not the list so far
AppFilteredDecadeRestarts(publications, filters) ==
  AppFormatFilter(AppStatusFilter(AppDecadeFilter(publications, filters), filters), filters)

\* the filters in the order applyFilters applies them, before the sort
AppFiltered(publications, filters) ==
  AppFormatFilter(
    AppStatusFilter(
      AppDecadeFilter(
        AppCityFilter(
          AppSearchFilter(publications, filters), filters), filters), filters), filters)

---------------------------------------------------------------------------
(* archive.js: state, URL, rendering *)

ArchiveState ==
  [publications |-> <<>>, filtered |-> <<>>,
   filters |-> [search |-> <<>>, city |-> AllCity, decade |-> "all", status |-> "all"],
   sort |-> "name", view |-> "grid", page |-> 1]

\* URLSearchParams.has / .get over the parameter list
\* the spelling of the values the model keeps as plain strings
Spellings ==
  { <<"search", <<"s","e","a","r","c","h">>>>, <<"city", <<"c","i","t","y">>>>,
    <<"decade", <<"d","e","c","a","d","e">>>>, <<"status", <<"s","t","a","t","u","s">>>>,
    <<"sort", <<"s","o","r","t">>>>, <<"view", <<"v","i","e","w">>>>,
    <<"all", <<"a","l","l">>>>, <<"active", <<"a","c","t","i","v","e">>>>,
    <<"archived", <<"a","r","c","h","i","v","e","d">>>>, <<"bogus", <<"b","o","g","u","s">>>>,
    <<"name", <<"n","a","m","e">>>>, <<"year-asc", <<"y","e","a","r","-","a","s","c">>>>,
    <<"year-desc", <<"y","e","a","r","-","d","e","s","c">>>>,
    <<"grid", <<"g","r","i","d">>>>, <<"list", <<"l","i","s","t">>>>,
    <<"1890s", <<"1","8","9","0","s">>>>, <<"id", <<"i","d">>>> }

Spell(word) == (CHOOSE p \in Spellings : p[1] = word)[2]

\* the plain string spelled by text; a text that spells none of them is kept
\* apart from all of them
Unspell(text) ==
  IF \E p \in Spellings : p[2] = text
  THEN (CHOOSE p \in Spellings : p[2] = text)[1]
  ELSE "unspelled"

\* the fields of the state that hold text; the others hold plain strings
TextParams == {"search", "city", "id"}

\* the percent-encoded bytes of the characters a query string escapes
PercentCodes ==
  { <<"&", <<"%","2","6">>>>, <<"=", <<"%","3","D">>>>, <<"+", <<"%","2","B">>>>,
    <<"%", <<"%","2","5">>>>, <<" ", <<"%","2","0">>>>,
    <<"=", <<"%","3","d">>>>, <<"+", <<"%","2","b">>>> }

\* a serializer that writes every character as it is
formUrlEncodeCharRaw(c) == <<c>>

\* the application/x-www-form-urlencoded serializer, one character: a space
\* becomes +, a character outside the unreserved set its percent-encoded byte
formUrlEncodeChar(c) ==
  IF c = " " THEN <<"+">>
  ELSE IF c \in Reserved
  THEN (CHOOSE p \in PercentCodes : p[1] = c /\ p[2][3] \notin {"b", "d"})[2]
  ELSE <<c>>

RECURSIVE formUrlEncode(_, _)
formUrlEncode(text, n) ==
  IF n = 0 THEN <<>> ELSE formUrlEncode(text, n - 1) \o formUrlEncodeChar(text[n])

\* the parser's decoding of a name or value from position i on: + becomes a
\* space, a percent-encoded byte its character
RECURSIVE formUrlDecode(_, _)
formUrlDecode(text, i) ==
  IF i > Len(text) THEN <<>>
  ELSE IF text[i] = "+" THEN <<" ">> \o formUrlDecode(text, i + 1)
  ELSE IF /\ text[i] = "%" /\ i + 2 <= Len(text)
          /\ \E p \in PercentCodes : p[2] = SubSeq(text, i, i + 2)
  THEN <<(CHOOSE p \in PercentCodes : p[2] = SubSeq(text, i, i + 2))[1]>>
         \o formUrlDecode(text, i + 3)
  ELSE <<text[i]>> \o formUrlDecode(text, i + 1)

\* the position of the first character c of text at or after i, or
\* Len(text) + 1
RECURSIVE Find(_, _, _)
Find(text, c, i) ==
  IF i > Len(text) \/ text[i] = c THEN i ELSE Find(text, c, i + 1)

\* one name=value pair of a query string as a parameter: the name and the
\* value decoded, a value of a field that holds a plain string unspelled
ParseParam(pair) ==
  LET eq == Find(pair, "=", 1)
      name == Unspell(formUrlDecode(SubSeq(pair, 1, eq - 1), 1))
      value == formUrlDecode(SubSeq(pair, eq + 1, Len(pair)), 1)
  IN <<name, IF name \in TextParams THEN value ELSE Unspell(value)>>

\* new URLSearchParams(query): the pairs between the & of query, from
\* position i on
RECURSIVE URLSearchParamsFrom(_, _)
URLSearchParamsFrom(query, i) ==
  IF i > Len(query) THEN <<>>
  ELSE LET amp == Find(query, "&", i)
       IN (IF amp = i THEN <<>> ELSE <<ParseParam(SubSeq(query, i, amp - 1))>>)
            \o URLSearchParamsFrom(query, amp + 1)

URLSearchParams(query) == URLSearchParamsFrom(query, 1)

\* params.toString(): name=value pairs joined by &
RECURSIVE paramsToString(_, _)
paramsToString(params, n) ==
  IF n = 0 THEN <<>>
  ELSE LET name == Spell(params[n][1])
           value == IF params[n][1] \in TextParams THEN params[n][2] ELSE Spell(params[n][2])
       IN (IF n = 1 THEN <<>> ELSE paramsToString(params, n - 1) \o <<"&">>)
            \o formUrlEncode(name, Len(name)) \o <<"=">> \o formUrlEncode(value, Len(value))

ParamHas(params, k) == \E i \in 1..Len(params) : params[i][1] = k

ParamGet(params, k) ==
  LET i == CHOOSE i \in 1..Len(params) :
             params[i][1] = k /\ \A j \in 1..(i - 1) : params[j][1] # k
  IN params[i][2]

ParamOr(params, k, old) == IF ParamHas(params, k) THEN ParamGet(params, k) ELSE old

loadStateFromURL(s, params) ==
  [s EXCEPT !.filters.search = ParamOr(params, "search", @),
            !.filters.city = ParamOr(params, "city", @),
            !.filters.decade = ParamOr(params, "decade", @),
            !.filters.status = ParamOr(params, "status", @),
            !.sort = ParamOr(params, "sort", @),
            !.view = ParamOr(params, "view", @)]

\* an updateURL that writes the sort key whatever it is
updateURLAlwaysSort(s) ==
     (IF Len(s.filters.search) > 0 THEN << <<"search", s.filters.search>> >> ELSE <<>>)
  \o (IF s.filters.city # AllCity THEN << <<"city", s.filters.city>> >> ELSE <<>>)
  \o (IF s.filters.decade # "all" THEN << <<"decade", s.filters.decade>> >> ELSE <<>>)
  \o (IF s.filters.status # "all" THEN << <<"status", s.filters.status>> >> ELSE <<>>)
  \o << <<"sort", s.sort>> >>
  \o (IF s.view # "grid" THEN << <<"view", s.view>> >> ELSE <<>>)

\* the parameters updateURL sets
updateURL(s) ==
     (IF Len(s.filters.search) > 0 THEN << <<"search", s.filters.search>> >> ELSE <<>>)
  \o (IF s.filters.city # AllCity THEN << <<"city", s.filters.city>> >> ELSE <<>>)
  \o (IF s.filters.decade # "all" THEN << <<"decade", s.filters.decade>> >> ELSE <<>>)
  \o (IF s.filters.status # "all" THEN << <<"status", s.filters.status>> >> ELSE <<>>)
  \o (IF s.sort # "name" THEN << <<"sort", s.sort>> >> ELSE <<>>)
  \o (IF s.view # "grid" THEN << <<"view", s.view>> >> ELSE <<>>)

\* the query string updateURL hands to history.replaceState
newURL(s) == paramsToString(updateURL(s), Len(updateURL(s)))

Min(a, b) == IF a < b THEN a ELSE b

\* the page before any script has written to it
ArchiveDom ==
  [resultsGrid |-> "loading", listRows |-> "", emptyState |-> "hidden",
   loadMore |-> "hidden", showing |-> 0, total |-> 0, shownView |-> "grid",
   cards |-> <<>>, rows |-> <<>>, uncaught |-> 0]

\* a slice that shows one page at a time
visibleSliceOnePage(list, page) ==
  SubSeq(list, (page - 1) * perPage + 1, Min(page * perPage, Len(list)))

\* list.slice(0, page * perPage)
visibleSlice(list, page) == SubSeq(list, 1, Min(page * perPage, Len(list)))

\* the ids of the records a container draws, one card or row each
DrawnIds(list) == [i \in 1..Len(list) |-> list[i].id]

\* renderResults; cards and rows are the records drawn in the grid and in the
\* list
ArchiveRenderResults(s, d) ==
  LET toShow == visibleSlice(s.filtered, s.page)
      counted == [d EXCEPT !.showing = Len(toShow), !.total = Len(s.filtered)]
  IN IF Len(s.filtered) = 0
     THEN [counted EXCEPT !.emptyState = "shown", !.resultsGrid = "", !.listRows = "",
                          !.cards = <<>>, !.rows = <<>>, !.loadMore = "hidden"]
     ELSE [counted EXCEPT !.emptyState = "hidden",
                          !.resultsGrid = IF s.view = "grid" THEN "cards" ELSE @,
                          !.cards = IF s.view = "grid" THEN DrawnIds(toShow) ELSE @,
                          !.listRows = IF s.view = "grid" THEN @ ELSE "rows",
                          !.rows = IF s.view = "grid" THEN @ ELSE DrawnIds(toShow),
                          !.loadMore = IF Len(toShow) < Len(s.filtered) THEN "shown"
                                       ELSE "hidden"]

\* showError
ArchiveShowError(d) == [d EXCEPT !.resultsGrid = "error", !.cards = <<>>]

\* applyFilters up to the assignment of state.filtered
ArchiveApplied(s) ==
  [s EXCEPT !.filtered = sortPublications(ArchiveFiltered(s.publications, s.filters), s.sort)]

\* applyFilters, run on the state s the handler has just assigned:
\* filter, sort, renderResults, updateURL
\* a TypeError of the search filter ends the handler there, uncaught
ArchiveApplyFilters(s) ==
  IF ArchiveSearchFilterThrows(s.publications, s.filters)
  THEN /\ dom.uncaught < MaxErrors
       /\ state' = s
       /\ lastWrite' = "TypeError"
       /\ dom' = [dom EXCEPT !.uncaught = @ + 1]
       /\ UNCHANGED location
  ELSE /\ state' = ArchiveApplied(s)
       /\ lastWrite' = "applyFilters"
       /\ dom' = ArchiveRenderResults(state', dom)
       /\ location' = newURL(s)

\* updateViewMode: show the grid or the list, renderResults, updateURL
ArchiveUpdateViewMode(s, d) ==
  ArchiveRenderResults(s, [d EXCEPT !.shownView = IF s.view = "grid" THEN "grid" ELSE "list"])

\* the chips updateActiveFiltersDisplay draws, each a clearFilter(type) button
ArchiveChips(s) ==
  {ty \in {"search", "city", "decade", "status"} :
     CASE ty = "search" -> Len(s.filters.search) > 0
       [] ty = "city"   -> s.filters.city # AllCity
       [] ty = "decade" -> s.filters.decade # "all"
       [] ty = "status" -> s.filters.status # "all"}

---------------------------------------------------------------------------
(* What the user and the network can supply *)

\* texts typed into the search input
TypedTexts == { <<>>, <<" ">>, Afro \o <<" ">> }

\* the query strings the archive page is opened with
InitialURLs ==
  { <<>>,
    Spell("search") \o <<"=", "%","2","0">>,
    Spell("search") \o <<"=", "%","2","6", "%","3","d", "+", "%","2","B", "%","2","5">>,
    Spell("status") \o <<"=">> \o Spell("bogus"),
    Spell("sort") \o <<"=">> \o Spell("bogus"),
    Spell("city") \o <<"=">> \o Newark \o <<"&">> \o Spell("decade") \o <<"=">> \o Spell("1890s")
      \o <<"&">> \o Spell("status") \o <<"=">> \o Spell("active")
      \o <<"&">> \o Spell("sort") \o <<"=">> \o Spell("year-desc")
      \o <<"&">> \o Spell("view") \o <<"=">> \o Spell("list") }

\* the options of the city select: 'all' and the cities populateCityFilter adds
CityOptions(publications) ==
  {AllCity} \cup { publications[i].city :
                     i \in {j \in 1..Len(publications) : HasText(publications[j], "city")} }

DecadeOptions == {"all", "1890s"}

StatusOptions == {"all", "active", "archived"}

---------------------------------------------------------------------------
(* debounce, setTimeout and clearTimeout *)

\* the delay the search listeners pass to debounce, in milliseconds
delay == 300

\* no timer was ever set: `let timeout;`
NoTimers == [handle |-> 0, timers |-> <<>>]

\* the list without its i-th element
Without(list, i) == SubSeq(list, 1, i - 1) \o SubSeq(list, i + 1, Len(list))

\* the handle of some timer once the i-th timer has left the table; 0 is a
\* handle that names no pending timer
HandleWithout(handle, i) ==
  IF handle = i THEN 0 ELSE IF handle > i THEN handle - 1 ELSE handle

\* clearTimeout(timeout): the timer of the handle leaves the table; a handle
\* that names no pending timer clears nothing
clearTimeout(t) ==
  IF t.handle \in 1..Len(t.timers)
  THEN [handle |-> 0, timers |-> Without(t.timers, t.handle)]
  ELSE t

\* timeout = setTimeout(..., ms): a timer that runs ms from now, and its handle
setTimeout(t, ms) ==
  [handle |-> Len(t.timers) + 1, timers |-> Append(t.timers, ms)]

\* a debounce that sets its timer without clearing the pending one
debounceNoClear(t) == setTimeout(t, delay)

\* one call of the function debounce returns
debounce(t) == setTimeout(clearTimeout(t), delay)

\* the timers whose time comes first: of timers of one delay, the one set
\* first
Due(t) == IF Len(t.timers) > 0 THEN {1} ELSE {}

\* the time of the i-th timer has come: it runs its callback and leaves the
\* table
Fired(t, i) == [handle |-> HandleWithout(t.handle, i), timers |-> Without(t.timers, i)]

---------------------------------------------------------------------------
(* archive.js: init and the event handlers *)

\* init up to the await: cacheElements, loadStateFromURL, the fetch is sent
ArchiveInit ==
  /\ doc = "archive" /\ pc = "start"
  /\ pc' = "loading"
  /\ state' = loadStateFromURL(state, URLSearchParams(location))
  /\ UNCHANGED <<doc, searchInput, timeout, location, dom, lastWrite>>

\* the rest of init, on the state s and page d that loadData leaves:
\* populateCityFilter, setupEventListeners, applyFilters, updateUIFromState
\* a TypeError of the search filter ends init there, uncaught
ArchiveInitRest(s, d) ==
  /\ IF ArchiveSearchFilterThrows(s.publications, s.filters)
     THEN /\ d.uncaught < MaxErrors
          /\ state' = s
          /\ lastWrite' = "TypeError"
          /\ dom' = [d EXCEPT !.uncaught = @ + 1]
          /\ UNCHANGED <<location, searchInput>>
     ELSE /\ state' = ArchiveApplied(s)
          /\ lastWrite' = "applyFilters"
          /\ dom' = ArchiveUpdateViewMode(state', ArchiveRenderResults(state', d))
          /\ location' = newURL(s)
          /\ searchInput' = IF Len(s.filters.search) > 0 THEN s.filters.search
                            ELSE searchInput
  /\ UNCHANGED <<doc, timeout>>

\* loadData succeeds
ArchiveLoaded ==
  /\ doc = "archive" /\ pc = "loading"
  /\ pc' = "ready"
  /\ \E data \in Documents : ArchiveInitRest([state EXCEPT !.publications = data], dom)

\* loadData fails (network error or response not ok): showError, and init goes on
ArchiveLoadFailed ==
  /\ doc = "archive" /\ pc = "loading"
  /\ pc' = "failed"
  /\ ArchiveInitRest(state, ArchiveShowError(dom))

ArchiveListening == doc = "archive" /\ pc \in {"ready", "failed"}

\* an input event on the search box: the debounced handler re-arms its timer
ArchiveSearchInput ==
  /\ ArchiveListening
  /\ \E v \in TypedTexts : v # searchInput /\ searchInput' = v
  /\ timeout' = debounce(timeout)
  /\ UNCHANGED <<doc, pc, state, location, dom, lastWrite>>

\* the delay has passed and the timer fires: the search handler reads the
\* input as it is now
ArchiveSearch ==
  /\ ArchiveListening
  /\ \E i \in Due(timeout) : timeout' = Fired(timeout, i)
  /\ ArchiveApplyFilters([state EXCEPT !.filters.search = toLowerCase(trim(searchInput)),
                                       !.page = 1])
  /\ UNCHANGED <<doc, pc, searchInput>>

ArchiveCityChange ==
  /\ ArchiveListening
  /\ \E v \in CityOptions(state.publications) :
       ArchiveApplyFilters([state EXCEPT !.filters.city = v, !.page = 1])
  /\ UNCHANGED <<doc, pc, searchInput, timeout>>

\* a decade handler that leaves state.page as it is
ArchiveDecadeChangeKeepsPage ==
  /\ ArchiveListening
  /\ \E v \in DecadeOptions : ArchiveApplyFilters([state EXCEPT !.filters.decade = v])
  /\ UNCHANGED <<doc, pc, searchInput, timeout>>

ArchiveDecadeChange ==
  /\ ArchiveListening
  /\ \E v \in DecadeOptions :
       ArchiveApplyFilters([state EXCEPT !.filters.decade = v, !.page = 1])
  /\ UNCHANGED <<doc, pc, searchInput, timeout>>

ArchiveStatusClick ==
  /\ ArchiveListening
  /\ \E v \in StatusOptions :
       ArchiveApplyFilters([state EXCEPT !.filters.status = v, !.page = 1])
  /\ UNCHANGED <<doc, pc, searchInput, timeout>>

ArchiveSortChange ==
  /\ ArchiveListening
  /\ \E v \in SortKeys : ArchiveApplyFilters([state EXCEPT !.sort = v])
  /\ UNCHANGED <<doc, pc, searchInput, timeout>>

ArchiveViewClick ==
  /\ ArchiveListening
  /\ \E v \in {"grid", "list"} :
       LET s == [state EXCEPT !.view = v]
       IN /\ state' = s
          /\ dom' = ArchiveUpdateViewMode(s, dom)
          /\ location' = newURL(s)
  /\ UNCHANGED <<doc, pc, searchInput, timeout, lastWrite>>

\* loadMore, on the button renderResults shows while more records remain
ArchiveLoadMore ==
  /\ ArchiveListening /\ dom.loadMore = "shown"
  /\ state' = [state EXCEPT !.page = @ + 1]
  /\ dom' = ArchiveRenderResults(state', dom)
  /\ UNCHANGED <<doc, pc, searchInput, timeout, location, lastWrite>>

\* clearFilter(type), on a chip of the active-filters display
ArchiveClearFilter ==
  /\ ArchiveListening
  /\ \E ty \in ArchiveChips(state) :
       /\ ArchiveApplyFilters(
            [state EXCEPT !.filters.search = IF ty = "search" THEN <<>> ELSE @,
                          !.filters.city = IF ty = "city" THEN AllCity ELSE @,
                          !.filters.decade = IF ty = "decade" THEN "all" ELSE @,
                          !.filters.status = IF ty = "status" THEN "all" ELSE @,
                          !.page = 1])
       /\ searchInput' = IF ty = "search" THEN <<>> ELSE searchInput
  /\ UNCHANGED <<doc, pc, timeout>>

\* a resetFilters that leaves the text of the search box as it is
ArchiveResetFiltersKeepsInput ==
  /\ ArchiveListening
  /\ ArchiveApplyFilters([state EXCEPT !.filters = ArchiveState.filters, !.page = 1])
  /\ UNCHANGED <<doc, pc, timeout, searchInput>>

\* resetFilters, on the button that clears all filters
ArchiveResetFilters ==
  /\ ArchiveListening
  /\ ArchiveApplyFilters([state EXCEPT !.filters = ArchiveState.filters, !.page = 1])
  /\ searchInput' = <<>>
  /\ UNCHANGED <<doc, pc, timeout>>

ArchiveNext ==
  \/ ArchiveInit \/ ArchiveLoaded \/ ArchiveLoadFailed
  \/ ArchiveSearchInput \/ ArchiveSearch
  \/ ArchiveCityChange \/ ArchiveDecadeChange \/ ArchiveStatusClick
  \/ ArchiveSortChange \/ ArchiveViewClick \/ ArchiveLoadMore
  \/ ArchiveClearFilter \/ ArchiveResetFilters

---------------------------------------------------------------------------
(* app.js: state, rendering, init and the event handlers *)

AppState ==
  [publications |-> <<>>, filteredPublications |-> <<>>,
   filters |-> [search |-> <<>>, city |-> AllCity, decade |-> "all", status |-> "all",
                format |-> "all"],
   sortBy |-> "name", currentPage |-> 1]

\* the page before any script has written to it
AppDom ==
  [resultsGrid |-> "loading", emptyResults |-> "hidden", loadMore |-> "hidden",
   showing |-> 0, total |-> 0, cards |-> <<>>, uncaught |-> 0]

\* renderPublications; cards are the records drawn in the grid
AppRenderPublications(s, d) ==
  LET end == s.currentPage * perPage
      toShow == visibleSlice(s.filteredPublications, s.currentPage)
  IN IF Len(toShow) = 0
     THEN [d EXCEPT !.resultsGrid = "", !.cards = <<>>, !.emptyResults = "shown",
                    !.loadMore = "hidden"]
     ELSE [d EXCEPT !.emptyResults = "hidden", !.resultsGrid = "cards",
                    !.cards = DrawnIds(toShow),
                    !.loadMore = IF end < Len(s.filteredPublications) THEN "shown" ELSE "hidden"]

\* a count of the records on show that forgets the length of the list
AppUpdateResultsCountNoMin(s, d) ==
  [d EXCEPT !.showing = s.currentPage * perPage, !.total = Len(s.filteredPublications)]

\* updateResultsCount
AppUpdateResultsCount(s, d) ==
  [d EXCEPT !.showing = Min(s.currentPage * perPage, Len(s.filteredPublications)),
            !.total = Len(s.filteredPublications)]

\* showError
AppShowError(d) == [d EXCEPT !.resultsGrid = "error", !.cards = <<>>]

\* applyFilters up to the sort: state.filteredPublications = filtered; sortPublications()
AppApplied(s) ==
  [s EXCEPT !.filteredPublications =
              sortPublications(AppFiltered(s.publications, s.filters), s.sortBy)]

\* applyFilters, run on the state s the handler has just assigned:
\* filter, sort, renderPublications, updateResultsCount
\* a TypeError of the search filter ends the handler there, uncaught
AppApplyFilters(s) ==
  IF AppSearchFilterThrows(s.publications, s.filters)
  THEN /\ dom.uncaught < MaxErrors
       /\ state' = s
       /\ lastWrite' = "TypeError"
       /\ dom' = [dom EXCEPT !.uncaught = @ + 1]
  ELSE /\ state' = AppApplied(s)
       /\ lastWrite' = "applyFilters"
       /\ dom' = AppUpdateResultsCount(state', AppRenderPublications(state', dom))

\* the chips updateActiveFiltersDisplay draws, each a removeFilter(type) button
AppChips(s) ==
  {ty \in {"search", "city", "decade", "status", "format"} :
     CASE ty = "search" -> Len(s.filters.search) > 0
       [] ty = "city"   -> s.filters.city # AllCity
       [] ty = "decade" -> s.filters.decade # "all"
       [] ty = "status" -> s.filters.status # "all"
       [] ty = "format" -> s.filters.format # "all"}

\* the filter buttons of the home page: data-filter and data-value
FilterButtons ==
     { <<"city", v>> : v \in {AllCity, Newark} }
  \cup { <<"decade", v>> : v \in DecadeOptions }
  \cup { <<"status", v>> : v \in StatusOptions }
  \cup { <<"format", v>> : v \in {"all", "print", "digital"} }

\* init up to the await: cacheElements, setupEventListeners, the fetch is sent
AppInit ==
  /\ doc = "app" /\ pc = "start"
  /\ pc' = "loading"
  /\ UNCHANGED <<doc, state, searchInput, timeout, location, dom, lastWrite>>

\* loadData succeeds: the records are stored, copied to the filtered list and rendered
AppLoaded ==
  /\ doc = "app" /\ pc = "loading"
  /\ pc' = "ready"
  /\ \E data \in Documents :
       /\ state' = [state EXCEPT !.publications = data, !.filteredPublications = data]
       /\ dom' = AppUpdateResultsCount(state', AppRenderPublications(state', dom))
  /\ lastWrite' = "loadData"
  /\ UNCHANGED <<doc, searchInput, timeout, location>>

\* loadData fails (network error or response not ok): showError
AppLoadFailed ==
  /\ doc = "app" /\ pc = "loading"
  /\ pc' = "failed"
  /\ dom' = AppShowError(dom)
  /\ UNCHANGED <<doc, state, searchInput, timeout, location, lastWrite>>

\* the listeners are attached before the fetch is awaited
AppListening == doc = "app" /\ pc \in {"loading", "ready", "failed"}

\* an input event on the search box: the debounced handler re-arms its timer
AppSearchInput ==
  /\ AppListening
  /\ \E v \in TypedTexts : v # searchInput /\ searchInput' = v
  /\ timeout' = debounce(timeout)
  /\ UNCHANGED <<doc, pc, state, location, dom, lastWrite>>

\* the delay has passed and the timer fires: handleSearch reads the input as
\* it is now
AppHandleSearch ==
  /\ AppListening
  /\ \E i \in Due(timeout) : timeout' = Fired(timeout, i)
  /\ AppApplyFilters([state EXCEPT !.filters.search = trim(toLowerCase(searchInput)),
                                   !.currentPage = 1])
  /\ UNCHANGED <<doc, pc, searchInput, location>>

AppHandleFilterClick ==
  /\ AppListening
  /\ \E btn \in FilterButtons :
       AppApplyFilters([state EXCEPT !.filters[btn[1]] = btn[2], !.currentPage = 1])
  /\ UNCHANGED <<doc, pc, searchInput, timeout, location>>

\* handleSort: sortPublications() on the list as it stands, renderPublications()
AppHandleSort ==
  /\ AppListening
  /\ \E v \in SortKeys :
       /\ state' = [state EXCEPT !.sortBy = v,
                                 !.filteredPublications = sortPublications(@, v)]
       /\ dom' = AppRenderPublications(state', dom)
  /\ lastWrite' = "sortPublications"
  /\ UNCHANGED <<doc, pc, searchInput, timeout, location>>

\* loadMore, on the button renderPublications shows while more records remain
AppLoadMore ==
  /\ AppListening /\ dom.loadMore = "shown"
  /\ state' = [state EXCEPT !.currentPage = @ + 1]
  /\ dom' = AppUpdateResultsCount(state', AppRenderPublications(state', dom))
  /\ UNCHANGED <<doc, pc, searchInput, timeout, location, lastWrite>>

\* removeFilter(type), on a chip of the active-filters display
AppRemoveFilter ==
  /\ AppListening
  /\ \E ty \in AppChips(state) :
       /\ AppApplyFilters(
            IF ty = "search"
            THEN [state EXCEPT !.filters.search = <<>>, !.currentPage = 1]
            ELSE [state EXCEPT !.filters[ty] = IF ty = "city" THEN AllCity ELSE "all",
                               !.currentPage = 1])
       /\ searchInput' = IF ty = "search" THEN <<>> ELSE searchInput
  /\ UNCHANGED <<doc, pc, timeout, location>>

AppResetFilters ==
  /\ AppListening
  /\ AppApplyFilters([state EXCEPT !.filters = AppState.filters, !.currentPage = 1])
  /\ searchInput' = <<>>
  /\ UNCHANGED <<doc, pc, timeout, location>>

\* window.njbp.filterByDecade(decade), called by the timeline
AppFilterByDecade ==
  /\ AppListening
  /\ \E decade \in DecadeOptions \ {"all"} :
       AppApplyFilters([state EXCEPT !.filters.decade = decade, !.currentPage = 1])
  /\ UNCHANGED <<doc, pc, searchInput, timeout, location>>

AppNext ==
  \/ AppInit \/ AppLoaded \/ AppLoadFailed
  \/ AppSearchInput \/ AppHandleSearch \/ AppHandleFilterClick
  \/ AppHandleSort \/ AppLoadMore \/ AppRemoveFilter \/ AppResetFilters
  \/ AppFilterByDecade

---------------------------------------------------------------------------
(* timeline.js: the decade windows and the counts of each *)

\* a table of windows that skips the 1900s
decadesWithGap ==
  << [label |-> "1880s", start |-> 1880, end |-> 1889],
     [label |-> "1890s", start |-> 1890, end |-> 1899],
     [label |-> "1910s", start |-> 1910, end |-> 1919],
     [label |-> "1920s", start |-> 1920, end |-> 1929],
     [label |-> "1930s", start |-> 1930, end |-> 1939],
     [label |-> "1940s", start |-> 1940, end |-> 1949],
     [label |-> "1950s", start |-> 1950, end |-> 1959],
     [label |-> "1960s", start |-> 1960, end |-> 1969],
     [label |-> "1970s", start |-> 1970, end |-> 1979],
     [label |-> "1980s", start |-> 1980, end |-> 1989],
     [label |-> "1990s", start |-> 1990, end |-> 1999],
     [label |-> "2000s", start |-> 2000, end |-> 2009],
     [label |-> "2010s", start |-> 2010, end |-> 2019],
     [label |-> "2020s", start |-> 2020, end |-> 2029] >>

decades ==
  << [label |-> "1880s", start |-> 1880, end |-> 1889],
     [label |-> "1890s", start |-> 1890, end |-> 1899],
     [label |-> "1900s", start |-> 1900, end |-> 1909],
     [label |-> "1910s", start |-> 1910, end |-> 1919],
     [label |-> "1920s", start |-> 1920, end |-> 1929],
     [label |-> "1930s", start |-> 1930, end |-> 1939],
     [label |-> "1940s", start |-> 1940, end |-> 1949],
     [label |-> "1950s", start |-> 1950, end |-> 1959],
     [label |-> "1960s", start |-> 1960, end |-> 1969],
     [label |-> "1970s", start |-> 1970, end |-> 1979],
     [label |-> "1980s", start |-> 1980, end |-> 1989],
     [label |-> "1990s", start |-> 1990, end |-> 1999],
     [label |-> "2000s", start |-> 2000, end |-> 2009],
     [label |-> "2010s", start |-> 2010, end |-> 2019],
     [label |-> "2020s", start |-> 2020, end |-> 2029] >>

\* records for the timeline: a life that starts before the first window, one
\* without an end, one without a start, one inside a single window, one
\* with neither year, one that starts after the current year
Span1875 == [name |-> <<"a">>, yearFounded |-> 1875, yearCeased |-> 1920]
Since1929 == [name |-> <<"b">>, yearFounded |-> 1929]
Until1930 == [name |-> <<"c">>, yearCeased |-> 1930]
Span1890 == [name |-> <<"d">>, yearFounded |-> 1890, yearCeased |-> 1899]
Since2028 == [name |-> <<"e">>, yearFounded |-> 2028]

TimelinePool == <<Span1875, Since1929, Until1930, Span1890, Since2028, PubB, PubC>>

\* the record sets the timeline may load: every sequence of at most
\* MaxRecords records of TimelinePool, and the whole of it
TimelineDocuments ==
  UNION { { Numbered([i \in 1..n |-> TimelinePool[f[i]]]) :
             f \in [1..n -> 1..Len(TimelinePool)] } : n \in 0..MaxRecords }
  \cup { Numbered(TimelinePool) }

\* an overlap test that leaves out the year a record ceased
ActiveDuringBeforeCeased(pub, decade) ==
  LET founded == YearOr(pub, "yearFounded", 9999)
      ceased == YearOr(pub, "yearCeased", 2026)
  IN founded <= decade.end /\ ceased > decade.start

\* an overlap test that takes a record without a ceasing year as never alive
ActiveDuringKnownEnd(pub, decade) ==
  LET founded == YearOr(pub, "yearFounded", 9999)
      ceased == YearOr(pub, "yearCeased", 0)
  IN founded <= decade.end /\ ceased >= decade.start

\* the filter of calculateDecadeData and of showDecadeDetails: the life of pub
\* overlaps the window
ActiveDuring(pub, decade) ==
  LET founded == YearOr(pub, "yearFounded", 9999)
      ceased == YearOr(pub, "yearCeased", 2026)
  IN founded <= decade.end /\ ceased >= decade.start

\* a founding test that counts every record alive in the window
FoundedDuringOrBefore(pub, decade) ==
  /\ "yearFounded" \in DOMAIN pub
  /\ pub.yearFounded <= decade.end
  /\ YearOr(pub, "yearCeased", 2026) >= decade.start

\* pub.yearFounded >= decade.start && pub.yearFounded <= decade.end
FoundedDuring(pub, decade) ==
  /\ "yearFounded" \in DOMAIN pub
  /\ pub.yearFounded >= decade.start
  /\ pub.yearFounded <= decade.end

\* calculateDecadeData
calculateDecadeData(publications) ==
  [w \in 1..Len(decades) |->
     LET activePublications == SelectSeq(publications, LAMBDA pub : ActiveDuring(pub, decades[w]))
         founded == SelectSeq(publications, LAMBDA pub : FoundedDuring(pub, decades[w]))
     IN [label |-> decades[w].label, start |-> decades[w].start, end |-> decades[w].end,
         activeCount |-> Len(activePublications),
         foundedCount |-> Len(founded),
         publications |-> DrawnIds(SubSeq(activePublications, 1, Min(5, Len(activePublications))))]]

TimelineState == [publications |-> <<>>, decadeData |-> <<>>]

\* the timeline chart and the details panel, before any script has written
TimelineDom ==
  [bars |-> <<>>, details |-> "hidden", label |-> "", activeCount |-> 0,
   foundedCount |-> 0, pubs |-> <<>>, more |-> 0]

\* renderTimeline: one bar per entry of decadeData, with its two counts
renderTimeline(s, d) ==
  [d EXCEPT !.bars = [w \in 1..Len(s.decadeData) |->
                        [label |-> s.decadeData[w].label,
                         activeCount |-> s.decadeData[w].activeCount,
                         foundedCount |-> s.decadeData[w].foundedCount]]]

\* the rest of init after loadData: calculateDecadeData, renderTimeline,
\* setupEventListeners
TimelineInitRest(publications) ==
  /\ state' = [publications |-> publications,
               decadeData |-> calculateDecadeData(publications)]
  /\ dom' = renderTimeline(state', dom)
  /\ UNCHANGED <<doc, searchInput, timeout, location, lastWrite>>

\* loadData succeeds
TimelineLoaded ==
  /\ doc = "timeline" /\ pc = "start"
  /\ pc' = "ready"
  /\ \E data \in TimelineDocuments : TimelineInitRest(data)

\* loadData fails: the error is logged, publications stays empty, init goes on
TimelineLoadFailed ==
  /\ doc = "timeline" /\ pc = "start"
  /\ pc' = "failed"
  /\ TimelineInitRest(state.publications)

\* the data-decade values of the decade buttons; one names no window
DecadeButtons == {decades[w].label : w \in 1..Len(decades)} \cup {"1870s"}

\* showDecadeDetails(decadeLabel) on the state s and page d
showDecadeDetails(s, d, decadeLabel) ==
  IF \A w \in 1..Len(s.decadeData) : s.decadeData[w].label # decadeLabel THEN d
  ELSE LET decade == s.decadeData[CHOOSE w \in 1..Len(s.decadeData) :
                                    /\ s.decadeData[w].label = decadeLabel
                                    /\ \A v \in 1..(w - 1) : s.decadeData[v].label # decadeLabel]
           pubs == SelectSeq(s.publications, LAMBDA pub : ActiveDuring(pub, decade))
       IN [d EXCEPT !.details = "shown", !.label = decade.label,
                    !.activeCount = decade.activeCount,
                    !.foundedCount = decade.foundedCount,
                    !.pubs = DrawnIds(SubSeq(pubs, 1, Min(15, Len(pubs)))),
                    !.more = IF Len(pubs) > 15 THEN Len(pubs) - 15 ELSE 0]

\* a click on a decade button
TimelineDecadeClick ==
  /\ doc = "timeline" /\ pc \in {"ready", "failed"}
  /\ \E decadeLabel \in DecadeButtons : dom' = showDecadeDetails(state, dom, decadeLabel)
  /\ UNCHANGED <<doc, pc, state, searchInput, timeout, location, lastWrite>>

TimelineNext == TimelineLoaded \/ TimelineLoadFailed \/ TimelineDecadeClick

---------------------------------------------------------------------------
(* publication.js: the detail page of one record *)

Digits == <<"0","1","2","3","4","5","6","7","8","9">>

\* parseInt(text, 10) of the digits text starts with, from position i on with
\* the value n read so far
RECURSIVE parseDigits(_, _, _)
parseDigits(text, i, n) ==
  IF i > Len(text) \/ IndexOf(Digits, text[i]) = 0 THEN n
  ELSE parseDigits(text, i + 1, 10 * n + IndexOf(Digits, text[i]) - 1)

\* getPublicationId: the id parameter as a number; 0 stands for every value
\* init takes as no id (null, NaN and 0 itself)
getPublicationId(query) ==
  LET params == URLSearchParams(query)
  IN IF ParamHas(params, "id") THEN parseDigits(ParamGet(params, "id"), 1, 0) ELSE 0

\* the query strings the detail page is opened with: no id, the ids 1 and 2,
\* an id no document holds, an id that is no number, the id 0 and the id 1
\* written 01
PublicationURLs ==
  { <<>>, Spell("id") \o <<"=", "1">>, Spell("id") \o <<"=", "2">>,
    Spell("id") \o <<"=", "7">>, Spell("id") \o <<"=", "a">>,
    Spell("id") \o <<"=", "0">>, Spell("id") \o <<"=", "0", "1">> }

\* featured records: the record of id 1 with a mission statement and without
\* the city and the years of the base record; the record of id 2
FeaturedAfro == [id |-> 1, name |-> Afro, missionStatement |-> Echo]
FeaturedEcho == [id |-> 2, name |-> Echo, city |-> Newark, yearFounded |-> 1920]

\* the featured documents: featuredHistoric and featuredContemporary
FeaturedDocuments ==
  { [historic |-> <<>>, contemporary |-> <<>>],
    [historic |-> <<FeaturedAfro>>, contemporary |-> <<>>],
    [historic |-> <<FeaturedAfro>>, contemporary |-> <<FeaturedEcho>>] }

\* the base documents the detail page may load
PublicationDocuments ==
  UNION { { Numbered([i \in 1..n |-> Pool[f[i]]]) : f \in [1..n -> 1..Len(Pool)] } :
          n \in 0..MaxRecords }
  \cup { Numbered(<<PubA, PubB>>) }

\* what the two fetches of loadData give: fetch throws (a network error), or
\* each response is ok or not
LoadResults ==
  { [thrown |-> TRUE, pubOk |-> FALSE, publications |-> <<>>, featuredOk |-> FALSE,
     featured |-> [historic |-> <<>>, contemporary |-> <<>>]] }
  \cup { [thrown |-> FALSE, pubOk |-> TRUE, publications |-> data, featuredOk |-> TRUE,
          featured |-> featured] : data \in PublicationDocuments, featured \in FeaturedDocuments }
  \cup { [thrown |-> FALSE, pubOk |-> TRUE, publications |-> data, featuredOk |-> FALSE,
          featured |-> [historic |-> <<>>, contemporary |-> <<>>]] :
          data \in PublicationDocuments }
  \cup { [thrown |-> FALSE, pubOk |-> FALSE, publications |-> <<>>, featuredOk |-> TRUE,
          featured |-> featured] : featured \in FeaturedDocuments }
  \cup { [thrown |-> FALSE, pubOk |-> FALSE, publications |-> <<>>, featuredOk |-> FALSE,
          featured |-> [historic |-> <<>>, contemporary |-> <<>>]] }

\* the data document failed to load
LoadFailed(result) == result.thrown \/ ~ result.pubOk

PublicationState ==
  [allPublications |-> <<>>,
   featuredPublications |-> [historic |-> <<>>, contemporary |-> <<>>],
   currentPublication |-> <<>>]

\* the page before any script has written to it
PublicationDom ==
  [overlay |-> "shown", content |-> "loading", errorState |-> "hidden", console |-> ""]

\* loadData on the state s, given what the fetches give
PublicationLoadData(s, result) ==
  IF result.thrown THEN s
  ELSE [s EXCEPT !.allPublications = IF result.pubOk THEN result.publications ELSE @,
                 !.featuredPublications = IF result.featuredOk THEN result.featured ELSE @]

\* the first record of list with the id, as a list of one record or none
FindById(list, id) ==
  LET found == SelectSeq(list, LAMBDA p : p.id = id)
  IN IF Len(found) = 0 THEN <<>> ELSE <<found[1]>>

\* findPublication: the featured documents first, then the base document; a
\* list of one record, or none for null
findPublication(s, id) ==
  LET historic == FindById(s.featuredPublications.historic, id)
      contemporary == FindById(s.featuredPublications.contemporary, id)
      main == FindById(s.allPublications, id)
  IN IF Len(historic) > 0 THEN <<historic[1] @@ [_source |-> "featured-historic"]>>
     ELSE IF Len(contemporary) > 0
     THEN <<contemporary[1] @@ [_source |-> "featured-contemporary"]>>
     ELSE IF Len(main) > 0 THEN <<main[1] @@ [_source |-> "main"]>>
     ELSE <<>>

\* showError
PublicationShowError(d) ==
  [d EXCEPT !.overlay = "hidden", !.content = "hidden", !.errorState = "shown"]

\* the page init leaves after loadData: the record rendered, or showError
PublicationReport(s, d) ==
  IF Len(s.currentPublication) = 0 THEN PublicationShowError(d)
  ELSE [d EXCEPT !.overlay = "hidden", !.content = "rendered"]

\* init from await loadData on, for the id asked for and what the fetches give
PublicationLoadedState(s, id, result) ==
  LET loaded == PublicationLoadData(s, result)
  IN [loaded EXCEPT !.currentPublication = findPublication(loaded, id)]

PublicationLoadedDom(s, d, id, result) ==
  PublicationReport(PublicationLoadedState(s, id, result),
                    [d EXCEPT !.console = IF result.thrown THEN "error" ELSE @])

\* init up to await loadData: without an id, showError and return
PublicationInit ==
  /\ doc = "publication" /\ pc = "start"
  /\ IF getPublicationId(location) = 0
     THEN pc' = "done" /\ dom' = PublicationShowError(dom)
     ELSE pc' = "loading" /\ dom' = dom
  /\ UNCHANGED <<doc, state, searchInput, timeout, location, lastWrite>>

\* loadData returns with the data document loaded; init goes on
PublicationLoaded ==
  /\ doc = "publication" /\ pc = "loading"
  /\ pc' = "done"
  /\ \E result \in LoadResults :
       /\ ~ LoadFailed(result)
       /\ state' = PublicationLoadedState(state, getPublicationId(location), result)
       /\ dom' = PublicationLoadedDom(state, dom, getPublicationId(location), result)
  /\ lastWrite' = "loadData"
  /\ UNCHANGED <<doc, searchInput, timeout, location>>

\* loadData returns without the data document (fetch threw, or the response
\* was not ok); init goes on
PublicationLoadFailed ==
  /\ doc = "publication" /\ pc = "loading"
  /\ pc' = "done"
  /\ \E result \in LoadResults :
       /\ LoadFailed(result)
       /\ state' = PublicationLoadedState(state, getPublicationId(location), result)
       /\ dom' = PublicationLoadedDom(state, dom, getPublicationId(location), result)
  /\ lastWrite' = "loadFailed"
  /\ UNCHANGED <<doc, searchInput, timeout, location>>

PublicationNext == PublicationInit \/ PublicationLoaded \/ PublicationLoadFailed

---------------------------------------------------------------------------
(* The featured showcase (src/unnamed/part_000): the cards of both grids *)

\* base documents of the showcase: those of the detail page, and one whose
\* records carry the isFeaturedHistoric / isFeaturedContemporary flags
ShowcaseDocuments ==
  PublicationDocuments
  \cup { Numbered(<<[isFeaturedHistoric |-> TRUE, tags |-> <<Newark>>] @@ PubA,
                    [isFeaturedContemporary |-> TRUE] @@ PubB>>) }

FeaturedState ==
  [publications |-> <<>>,
   featuredData |-> [historic |-> <<>>, contemporary |-> <<>>]]

FeaturedDom == [historical |-> <<>>, contemporary |-> <<>>, console |-> ""]

\* loadData: a rejected featured fetch counts as a response that is not ok; a
\* rejected base fetch, or a base response that is not ok, throws, and the
\* catch leaves both variables as they were
FeaturedLoadData(s, result) ==
  IF result.thrown \/ ~ result.pubOk THEN s
  ELSE [s EXCEPT !.publications = result.publications,
                 !.featuredData = IF result.featuredOk THEN result.featured ELSE @]

\* getExtendedData: a list of one record, or none for null
getExtendedData(s, pubId, type) ==
  FindById(IF type = "historic" THEN s.featuredData.historic
           ELSE s.featuredData.contemporary, pubId)

\* extended?.f || pub.f || '' for a text field f
ExtendedOrBase(extended, pub, f) ==
  IF Len(extended) > 0 /\ HasText(extended[1], f) THEN extended[1][f]
  ELSE TextOr(pub, f)

\* extended?.f || [] (founders, tags), and extended?.f || null as none
ExtendedOnly(extended, f) ==
  IF Len(extended) > 0 /\ f \in DOMAIN extended[1] THEN extended[1][f] ELSE <<>>

\* createHistoricalCard: the values the card is drawn from
createHistoricalCard(s, pub) ==
  LET extended == getExtendedData(s, pub.id, "historic")
  IN [id |-> pub.id,
      name |-> TextOr(pub, "name"),
      yearFounded |-> YearOr(pub, "yearFounded", 0),
      yearCeased |-> YearOr(pub, "yearCeased", 0),
      founders |-> ExtendedOnly(extended, "founders"),
      historicalNotes |-> ExtendedOrBase(extended, pub, "historicalNotes"),
      physicalArchive |-> ExtendedOnly(extended, "physicalArchive"),
      tags |-> ExtendedOnly(extended, "tags"),
      missionStatement |-> ExtendedOrBase(extended, pub, "missionStatement"),
      archiveUrl |-> TextOr(pub, "archiveUrl")]

\* createContemporaryCard: the values the card is drawn from (focusAreas
\* stays the unsplit primaryFocus)
createContemporaryCard(s, pub) ==
  LET extended == getExtendedData(s, pub.id, "contemporary")
  IN [id |-> pub.id,
      name |-> TextOr(pub, "name"),
      founders |-> ExtendedOnly(extended, "founders"),
      missionStatement |-> ExtendedOrBase(extended, pub, "missionStatement"),
      focusAreas |-> IF Len(extended) > 0 /\ "focusAreas" \in DOMAIN extended[1]
                     THEN extended[1].focusAreas ELSE TextOr(pub, "primaryFocus"),
      tags |-> ExtendedOnly(extended, "tags"),
      websiteUrl |-> ExtendedOrBase(extended, pub, "websiteUrl")]

Flagged(pub, f) == f \in DOMAIN pub /\ pub[f]

\* renderFeaturedHistorical: the flagged records, or else the eight oldest
\* founded before 1980
FeaturedHistorical(s) ==
  LET flagged == SelectSeq(s.publications, LAMBDA p : Flagged(p, "isFeaturedHistoric"))
      old == ArraySort(SelectSeq(s.publications,
                         LAMBDA p : HasYear(p, "yearFounded") /\ p.yearFounded < 1980),
                       "year-asc")
      featured == IF Len(flagged) = 0 THEN SubSeq(old, 1, Min(8, Len(old))) ELSE flagged
  IN [i \in 1..Len(featured) |-> createHistoricalCard(s, featured[i])]

\* renderFeaturedContemporary: the flagged records, or else the first six
\* active ones with a website founded since 2010
FeaturedContemporary(s) ==
  LET flagged == SelectSeq(s.publications, LAMBDA p : Flagged(p, "isFeaturedContemporary"))
      recent == SelectSeq(s.publications,
                  LAMBDA p : /\ Flagged(p, "isActive") /\ HasText(p, "websiteUrl")
                             /\ HasYear(p, "yearFounded") /\ p.yearFounded >= 2010)
      featured == IF Len(flagged) = 0 THEN SubSeq(recent, 1, Min(6, Len(recent)))
                  ELSE flagged
  IN [i \in 1..Len(featured) |-> createContemporaryCard(s, featured[i])]

\* init from the return of loadData on
FeaturedInitRest(s, d) ==
  [d EXCEPT !.historical = FeaturedHistorical(s),
            !.contemporary = FeaturedContemporary(s)]

\* init with the base document loaded
FeaturedLoaded ==
  /\ doc = "featured" /\ pc = "start"
  /\ pc' = "done"
  /\ \E result \in { r \in LoadResults : ~ LoadFailed(r) }
                   \cup { [thrown |-> FALSE, pubOk |-> TRUE, publications |-> data,
                           featuredOk |-> TRUE, featured |-> featured] :
                           data \in ShowcaseDocuments, featured \in FeaturedDocuments } :
       /\ state' = FeaturedLoadData(state, result)
       /\ dom' = FeaturedInitRest(FeaturedLoadData(state, result), dom)
  /\ lastWrite' = "loadData"
  /\ UNCHANGED <<doc, searchInput, timeout, location>>

\* init with the base document not loaded: the catch of loadData logs, and
\* both grids are drawn from no records
FeaturedLoadFailed ==
  /\ doc = "featured" /\ pc = "start"
  /\ pc' = "done"
  /\ \E result \in { r \in LoadResults : LoadFailed(r) } :
       /\ state' = FeaturedLoadData(state, result)
       /\ dom' = FeaturedInitRest(FeaturedLoadData(state, result),
                                  [dom EXCEPT !.console = "error"])
  /\ lastWrite' = "loadFailed"
  /\ UNCHANGED <<doc, searchInput, timeout, location>>

FeaturedNext == FeaturedLoaded \/ FeaturedLoadFailed

---------------------------------------------------------------------------
(* The specification *)

Init ==
  /\ doc \in {"archive", "app", "timeline", "publication", "featured"}
  /\ pc = "start"
  /\ state = CASE doc = "archive" -> ArchiveState
             [] doc = "app" -> AppState
             [] doc = "timeline" -> TimelineState
             [] doc = "publication" -> PublicationState
             [] doc = "featured" -> FeaturedState
  /\ searchInput = <<>>
  /\ timeout = NoTimers
  /\ location \in CASE doc = "archive" -> InitialURLs
                   [] doc = "publication" -> PublicationURLs
                   [] OTHER -> {<<>>}
  /\ dom = CASE doc = "archive" -> ArchiveDom
           [] doc = "app" -> AppDom
           [] doc = "timeline" -> TimelineDom
           [] doc = "publication" -> PublicationDom
           [] doc = "featured" -> FeaturedDom
  /\ lastWrite = "none"

Next == ArchiveNext \/ AppNext \/ TimelineNext \/ PublicationNext \/ FeaturedNext

Spec == Init /\ [][Next]_vars

\* each page on its own
ArchivePage == Init /\ doc = "archive"
ArchiveSpec == ArchivePage /\ [][ArchiveNext]_vars

AppPage == Init /\ doc = "app"
AppSpec == AppPage /\ [][AppNext]_vars

TimelinePage == Init /\ doc = "timeline"
TimelineSpec == TimelinePage /\ [][TimelineNext]_vars

\* the pages that only read the documents: the timeline, the detail page and
\* the showcase
ReaderPage == Init /\ doc \in {"timeline", "publication", "featured"}
ReaderStep == TimelineNext \/ PublicationNext \/ FeaturedNext
ReaderSpec == ReaderPage /\ [][ReaderStep]_vars

\* the event loop runs the callback of a due timer, which leaves the table
TimerRuns == \E i \in Due(timeout) : timeout' = Fired(timeout, i)

\* the list pages with a user who only types in the search box; timers run:
\* the time of a pending timer comes
TypingStep ==
  \/ ArchiveInit \/ ArchiveLoaded \/ ArchiveLoadFailed
  \/ ArchiveSearchInput \/ ArchiveSearch
  \/ AppInit \/ AppLoaded \/ AppLoadFailed
  \/ AppSearchInput \/ AppHandleSearch
ListPages == Init /\ doc \in {"archive", "app"}
TypingSpec ==
  /\ ListPages
  /\ [][TypingStep]_vars
  /\ WF_timeout(TimerRuns)

\* the list pages with a user who types in the search box, removes single
\* filters and resets them all
ClearingStep ==
  \/ TypingStep
  \/ ArchiveClearFilter \/ ArchiveResetFilters
  \/ AppRemoveFilter \/ AppResetFilters
ClearingSpec == ListPages /\ [][ClearingStep]_vars

---------------------------------------------------------------------------
(* Reading the state of whichever page runs *)

\* the filtered, sorted list: state.filtered / state.filteredPublications
Matched == IF doc = "archive" THEN state.filtered ELSE state.filteredPublications

\* the current sort key: state.sort / state.sortBy
SortKey == IF doc = "archive" THEN state.sort ELSE state.sortBy

\* what the page's filters keep of the loaded records under the filter state f
Filtered(f) ==
  IF doc = "archive" THEN ArchiveFiltered(state.publications, f)
  ELSE AppFiltered(state.publications, f)

Ids(list) == {list[i].id : i \in 1..Len(list)}

Elems(list) == {list[i] : i \in 1..Len(list)}

\* the list on show was written by applyFilters for the filters now in state
Applied == lastWrite = "applyFilters"

---------------------------------------------------------------------------
(* The predicates the specification states for the filters *)

TextFields ==
  {"name", "city", "primaryFocus", "missionStatement", "publishers", "historicalNotes"}

\* the strings of a field value: the string itself, or the strings of the array
Strings(v) == IF IsText(v) THEN <<v>> ELSE v

\* the lower-cased query q is a substring of the lower-cased value of a
\* present text field, or of a tag
SearchPredicate(pub, q) ==
  \E f \in TextFields \cup {"tags"} :
    /\ f \in DOMAIN pub
    /\ \E i \in 1..Len(Strings(pub[f])) : includes(toLowerCase(Strings(pub[f])[i]), q)

\* isActive !== false and yearCeased absent
ActivePredicate(pub) ==
  /\ ~ ("isActive" \in DOMAIN pub /\ pub.isActive = FALSE)
  /\ "yearCeased" \notin DOMAIN pub

FormatPredicate(pub, format) ==
  LET medium == IF "medium" \in DOMAIN pub THEN toLowerCase(pub.medium) ELSE <<>>
  IN CASE format = "print"   -> includes(medium, <<"p","r","i","n","t">>)
       [] format = "digital" -> \/ includes(medium, <<"d","i","g","i","t","a","l">>)
                                \/ includes(medium, <<"o","n","l","i","n","e">>)
       [] OTHER              -> TRUE

\* pub satisfies every filter of f that is active
Satisfies(pub, f) ==
  /\ Len(f.search) > 0 => SearchPredicate(pub, toLowerCase(f.search))
  /\ f.city # AllCity => "city" \in DOMAIN pub /\ pub.city = f.city
  /\ f.decade # "all" => "decade" \in DOMAIN pub /\ pub.decade = f.decade
  /\ f.status = "active" => ActivePredicate(pub)
  /\ f.status = "archived" => ~ ActivePredicate(pub)
  /\ "format" \in DOMAIN f => FormatPredicate(pub, f.format)

\* the filter state f with every filter but the named one at its default
OnlyFilter(f, name) ==
  /\ name # "search" => f.search = <<>>
  /\ name # "city" => f.city = AllCity
  /\ name # "decade" => f.decade = "all"
  /\ name # "status" => f.status = "all"
  /\ name # "format" => ("format" \in DOMAIN f => f.format = "all")

---------------------------------------------------------------------------
(* Claims on the filters *)

\* C1: whatever the records and the filter state, every record of the
\* filtered result satisfies every filter whose value is not "all", and the
\* search predicate when the query is not empty.
C1_ResultSatisfiesActiveFilters ==
  Applied => \A i \in 1..Len(Matched) : Satisfies(Matched[i], state.filters)

\* C2: with the default filter state (empty search, every filter "all") the
\* filtered result holds exactly the loaded records, none removed or added.
C2_DefaultFiltersAreIdentity ==
  (Applied /\ OnlyFilter(state.filters, "none"))
    => /\ Len(Matched) = Len(state.publications)
       /\ Elems(Matched) = Elems(state.publications)

C2_Witness ==
  /\ doc = "app"
  /\ Applied
  /\ OnlyFilter(state.filters, "none")
  /\ Len(state.publications) > 1
  /\ Matched # state.publications

\* C3: on both pages status "active" selects exactly the records with
\* isActive not false and no yearCeased, and "archived" exactly the others.
C3_StatusSelectsActiveOrComplement ==
  (Applied /\ OnlyFilter(state.filters, "status"))
    => /\ state.filters.status = "active"
            => Elems(Matched) = {pub \in Elems(state.publications) : ActivePredicate(pub)}
       /\ state.filters.status = "archived"
            => Elems(Matched) = {pub \in Elems(state.publications) : ~ ActivePredicate(pub)}

\* C4: on every page with a search, a record passes the search filter if and
\* only if the lower-cased query is a substring of the lower-cased value of
\* one of name, city, primaryFocus, missionStatement, publishers,
\* historicalNotes or tags.
C4_SearchMatchesAnyListedField ==
  (Applied /\ OnlyFilter(state.filters, "search") /\ Len(state.filters.search) > 0)
    => Elems(Matched) =
         {pub \in Elems(state.publications) :
            SearchPredicate(pub, toLowerCase(state.filters.search))}

\* C5: an empty or whitespace-only search query excludes no record, whether it
\* was typed or came from the search URL parameter: the result is the one the
\* other filters give without a query.
C5_BlankQueryExcludesNothing ==
  (Applied /\ trim(state.filters.search) = <<>>)
    => Ids(Matched) = Ids(Filtered([state.filters EXCEPT !.search = <<>>]))

\* one stage of applyFilters on its own
Stage(name, list, f) ==
  CASE name = "search" -> IF doc = "archive" THEN ArchiveSearchFilter(list, f)
                          ELSE AppSearchFilter(list, f)
    [] name = "city"   -> IF doc = "archive" THEN ArchiveCityFilter(list, f)
                          ELSE AppCityFilter(list, f)
    [] name = "decade" -> IF doc = "archive" THEN ArchiveDecadeFilter(list, f)
                          ELSE AppDecadeFilter(list, f)
    [] name = "status" -> IF doc = "archive" THEN ArchiveStatusFilter(list, f)
                          ELSE AppStatusFilter(list, f)
    [] name = "format" -> AppFormatFilter(list, f)

\* the stages of the two applyFilters
ArchiveStageNames == {"search", "city", "decade", "status"}

AppStageNames == {"search", "city", "decade", "status", "format"}

\* the stages applied one after the other in the given order
RECURSIVE StagesInOrder(_, _, _, _)
StagesInOrder(order, n, list, f) ==
  IF n = 0 THEN list ELSE Stage(order[n], StagesInOrder(order, n - 1, list, f), f)

\* every order of the stages S
Orders(S) ==
  LET k == Cardinality(S)
  IN {order \in [1..k -> S] : \A i, j \in 1..k : order[i] = order[j] => i = j}

ArchiveStageOrders == Orders(ArchiveStageNames)

AppStageOrders == Orders(AppStageNames)

StageNames == IF doc = "archive" THEN ArchiveStageNames ELSE AppStageNames

StageOrders == IF doc = "archive" THEN ArchiveStageOrders ELSE AppStageOrders

\* C6: the filters compose as a logical AND, and the order in which search,
\* city, decade, status and format are applied does not change the result:
\* the records kept are those every active filter keeps on its own.
C6_FiltersComposeAsConjunction ==
  Applied =>
    /\ Elems(Matched) =
         {pub \in Elems(state.publications) :
            \A name \in StageNames : Len(Stage(name, <<pub>>, state.filters)) = 1}
    /\ \A order \in StageOrders :
         Elems(StagesInOrder(order, Len(order), state.publications, state.filters))
           = Elems(Matched)

C6_Witness ==
  /\ doc = "app"
  /\ Applied
  /\ state.filters.city # AllCity
  /\ state.filters.decade # "all"
  /\ state.filters.status # "all"
  /\ Len(Matched) > 0
  /\ Len(Matched) < Len(state.publications)
  /\ \E i \in 1..Len(state.publications) :
       /\ Len(AppCityFilter(<<state.publications[i]>>, state.filters)) = 1
       /\ Len(AppDecadeFilter(<<state.publications[i]>>, state.filters)) = 0

---------------------------------------------------------------------------
(* Claims on the sort *)

\* two records have equal sort keys; under a key the switch does not know
\* no record is ordered before another
KeysEqual(key, a, b) ==
  CASE key = "name" -> TextOr(a, "name") = TextOr(b, "name")
    [] key = "city" -> TextOr(a, "city") = TextOr(b, "city")
    [] key \in {"year-asc", "year-desc"} -> YearOr(a, "yearFounded", 0) = YearOr(b, "yearFounded", 0)
    [] OTHER -> TRUE

Position(list, id) == CHOOSE k \in 1..Len(list) : list[k].id = id

\* output holds exactly the records of input, those of equal keys in the
\* order input has them
StablePermutation(input, output, key) ==
  /\ Len(output) = Len(input)
  /\ Elems(output) = Elems(input)
  /\ \A i, j \in 1..Len(input) :
       (i < j /\ KeysEqual(key, input[i], input[j]))
         => Position(output, input[i].id) < Position(output, input[j].id)

\* C7: sorting is stable and a permutation: under every sort key the output
\* holds exactly the input records, and records of equal sort keys keep the
\* order they had in the input.  The input is the filter output when
\* applyFilters sorts, and the list on show when the home page's handleSort
\* sorts.
C7_SortIsStablePermutation ==
  /\ [](Applied => StablePermutation(Filtered(state.filters), Matched, SortKey))
  /\ [][lastWrite' = "sortPublications"
          => StablePermutation(Matched, Matched', SortKey')]_vars

C7_Witness ==
  /\ doc = "app"
  /\ lastWrite = "sortPublications"
  /\ SortKey = "city"
  /\ \E i, j \in 1..Len(Matched) :
       /\ i < j
       /\ KeysEqual(SortKey, Matched[i], Matched[j])
       /\ Matched[i].id > Matched[j].id
  /\ \E i, j \in 1..Len(Matched) : ~ KeysEqual(SortKey, Matched[i], Matched[j])

\* the list on show was sorted under the sort key now in state
Sorted == lastWrite \in {"applyFilters", "sortPublications"}

\* C8: under both year sorts every record without a yearFounded comes after
\* every record with one; year-asc orders the known years ascending and
\* year-desc descending.
C8_MissingYearSortsLast ==
  (Sorted /\ SortKey \in {"year-asc", "year-desc"})
    => \A i, j \in 1..Len(Matched) :
         i < j =>
           /\ HasYear(Matched[j], "yearFounded") => HasYear(Matched[i], "yearFounded")
           /\ (HasYear(Matched[i], "yearFounded") /\ HasYear(Matched[j], "yearFounded"))
                => IF SortKey = "year-asc"
                   THEN Matched[i].yearFounded <= Matched[j].yearFounded
                   ELSE Matched[i].yearFounded >= Matched[j].yearFounded

C8_Witness ==
  /\ Sorted
  /\ SortKey = "year-desc"
  /\ Len(Matched) > 2
  /\ ~ HasYear(Matched[Len(Matched)], "yearFounded")
  /\ HasYear(Matched[1], "yearFounded")
  /\ HasYear(Matched[2], "yearFounded")
  /\ Matched[1].yearFounded > Matched[2].yearFounded

\* C9: a sort key that is none of name, year-asc, year-desc, city, such as
\* sort=bogus taken from the URL, is not an error and sorts nothing: the list
\* on show is the filter output in unchanged order.
C9_UnknownSortKeyIsNoOp ==
  (Applied /\ SortKey \notin SortKeys)
    => /\ Matched = Filtered(state.filters)
       /\ pc = "ready" => dom.resultsGrid # "error" /\ dom.total = Len(Matched)

C9_Witness ==
  /\ doc = "archive"
  /\ pc = "ready"
  /\ Applied
  /\ SortKey = "bogus"
  /\ Len(Matched) > 1
  /\ Matched # ArraySort(Matched, "name")

\* C10: a status or format value outside its enum, such as status=bogus from
\* a hand-edited URL, is not an error and excludes no record: the result is
\* the one obtained with that filter set to "all".
C10_UnknownEnumExcludesNothing ==
  /\ (Applied /\ state.filters.status \notin {"all", "active", "archived"})
       => Matched = sortPublications(Filtered([state.filters EXCEPT !.status = "all"]), SortKey)
  /\ (Applied /\ doc = "app" /\ state.filters.format \notin {"all", "print", "digital"})
       => Matched = sortPublications(Filtered([state.filters EXCEPT !.format = "all"]), SortKey)

---------------------------------------------------------------------------
(* Claims on pagination *)

\* the script is one of the two that list the records
OnListPage == doc \in {"archive", "app"}

\* state.page / state.currentPage
Page == IF doc = "archive" THEN state.page ELSE state.currentPage

\* the records on show: the cards of the grid, or on the archive page the
\* rows of the list when the list is the container shown
Visible == IF doc = "archive" /\ dom.shownView = "list" THEN dom.rows ELSE dom.cards

IsPrefix(a, b) == Len(a) <= Len(b) /\ SubSeq(b, 1, Len(a)) = a

\* the first Min(n, Len(list)) ids of list
FirstIds(list, n) == [i \in 1..(IF n < Len(list) THEN n ELSE Len(list)) |-> list[i].id]

Rendered == OnListPage /\ lastWrite # "none"

C13_PageResetsOnFilterChange ==
  /\ OnListPage => Page = 1
  /\ [][OnListPage =>
        /\ state'.filters # state.filters => Page' = 1
        /\ Page' # Page =>
             \/ Page' = 1
             \/ /\ Page' = Page + 1
                /\ state'.filters = state.filters
                /\ Matched' = Matched
                /\ dom.loadMore = "shown"]_vars

C13_Witness ==
  /\ doc = "archive"
  /\ Page = 1
  /\ Len(state.publications) > perPage
  /\ state.filters.decade # "all"
  /\ Len(Matched) > 0
  /\ lastWrite = "applyFilters"

---------------------------------------------------------------------------
(* Claims on the timeline *)

\* the timeline has computed and drawn its windows
TimelineDrawn == doc = "timeline" /\ pc \in {"ready", "failed"}

\* the indexes of the records of list that satisfy P
Count(list, P(_)) == Cardinality({i \in 1..Len(list) : P(list[i])})

\* C14: the timeline uses exactly 15 decade windows covering 1880 to 2029 in
\* ascending order, each with end = start + 9, contiguous and not
\* overlapping: the end of a window plus 1 is the start of the next.
C14_DecadeWindowsContiguous ==
  TimelineDrawn =>
    /\ Len(state.decadeData) = 15
    /\ Len(dom.bars) = 15
    /\ state.decadeData[1].start = 1880
    /\ state.decadeData[15].end = 2029
    /\ \A w \in 1..15 : state.decadeData[w].end = state.decadeData[w].start + 9
    /\ \A w \in 1..14 : state.decadeData[w].end + 1 = state.decadeData[w + 1].start

C14_Witness ==
  /\ TimelineDrawn
  /\ Len(state.publications) > 1
  /\ dom.details = "shown"
  /\ dom.label = "2020s"

\* the life of pub overlaps the years start..end, an unknown founding year
\* taken as 9999 and an unknown ceasing year as 2026
LifeOverlaps(pub, start, end) ==
  /\ (IF "yearFounded" \in DOMAIN pub THEN pub.yearFounded ELSE 9999) <= end
  /\ (IF "yearCeased" \in DOMAIN pub THEN pub.yearCeased ELSE 2026) >= start

\* C15: for every decade window activeCount is the number of records whose
\* life overlaps the window; a record with no founding year is active in no
\* window, and one with no ceasing year is active in every window from its
\* founding decade through the 2020s.  The details panel reports the same
\* count and lists the same records.
C15_ActiveCountIsOverlap ==
  TimelineDrawn =>
    /\ \A w \in 1..Len(state.decadeData) :
         LET decade == state.decadeData[w]
         IN /\ decade.activeCount =
                 Count(state.publications, LAMBDA pub : LifeOverlaps(pub, decade.start, decade.end))
            /\ dom.bars[w].activeCount = decade.activeCount
            /\ (dom.details = "shown" /\ dom.label = decade.label)
                 => /\ dom.activeCount = decade.activeCount
                    /\ Len(dom.pubs) + dom.more = decade.activeCount
    /\ \A i \in 1..Len(state.publications) :
         LET pub == state.publications[i]
         IN /\ "yearFounded" \notin DOMAIN pub
                 => \A w \in 1..Len(decades) : ~ ActiveDuring(pub, decades[w])
            /\ ("yearFounded" \in DOMAIN pub /\ "yearCeased" \notin DOMAIN pub)
                 => \A w \in 1..Len(decades) :
                      pub.yearFounded <= decades[w].end => ActiveDuring(pub, decades[w])

C15_Witness ==
  /\ TimelineDrawn
  /\ dom.details = "shown"
  /\ dom.label = "1950s"
  /\ dom.activeCount = 2
  /\ \E i \in 1..Len(state.publications) : "yearFounded" \notin DOMAIN state.publications[i]
  /\ \E i \in 1..Len(state.publications) :
       /\ "yearCeased" \in DOMAIN state.publications[i]
       /\ state.publications[i].yearCeased = 1950

\* C16: for every decade window foundedCount is the number of records whose
\* yearFounded lies in the window, both ends included; a record founded before
\* the window and still alive in it counts as active there and not as
\* founded.
C16_FoundedCountIsWithinWindow ==
  TimelineDrawn =>
    \A w \in 1..Len(state.decadeData) :
      LET decade == state.decadeData[w]
      IN /\ decade.foundedCount =
              Count(state.publications,
                    LAMBDA pub : /\ "yearFounded" \in DOMAIN pub
                                 /\ pub.yearFounded \in decade.start..decade.end)
         /\ dom.bars[w].foundedCount = decade.foundedCount
         /\ (dom.details = "shown" /\ dom.label = decade.label)
              => dom.foundedCount = decade.foundedCount

C16_Witness ==
  /\ TimelineDrawn
  /\ \E i \in 1..Len(state.publications) :
       /\ "yearFounded" \in DOMAIN state.publications[i]
       /\ state.publications[i].yearFounded < state.decadeData[1].start
       /\ ActiveDuring(state.publications[i], decades[1])
  /\ state.decadeData[1].activeCount = 1
  /\ state.decadeData[1].foundedCount = 0

---------------------------------------------------------------------------
(* Claims on the URL *)

\* the archive page after init has run
ArchiveUp == doc = "archive" /\ pc \in {"ready", "failed"}

\* the fields of the state the URL carries
UrlFields(s) ==
  [search |-> s.filters.search, city |-> s.filters.city, decade |-> s.filters.decade,
   status |-> s.filters.status, sort |-> s.sort, view |-> s.view]

DefaultFields ==
  [search |-> <<>>, city |-> AllCity, decade |-> "all", status |-> "all",
   sort |-> "name", view |-> "grid"]

\* the names of the parameters a query string holds
ParamNames(query) ==
  LET params == URLSearchParams(query) IN {params[i][1] : i \in 1..Len(params)}

\* C17: encoding the state to the URL emits a parameter only for a field that
\* differs from its default ("all" for city, decade and status, "name" for
\* sort, "grid" for view, empty for search); the all-default state encodes to
\* the empty query string, and decoding the empty query string leaves every
\* field at its default.
\* Every query string the page writes is the encoding of the state at that
\* step.
C17_EncodeOmitsDefaults ==
  /\ [](ArchiveUp =>
         /\ ParamNames(newURL(state)) =
              {k \in DOMAIN DefaultFields : UrlFields(state)[k] # DefaultFields[k]}
         /\ UrlFields(state) = DefaultFields => newURL(state) = <<>>
         /\ UrlFields(loadStateFromURL(ArchiveState, URLSearchParams(<<>>)))
              = DefaultFields)
  /\ [][(doc = "archive" /\ location' # location) => location' = newURL(state')]_vars

C17_Witness ==
  /\ ArchiveUp
  /\ state.filters.city = JerseyCity
  /\ location = Spell("city") \o <<"=">> \o <<"J","e","r","s","e","y","+","C","i","t","y">>

\* C18: round trip: for every state reachable through the UI, decoding the
\* query string that encodes it, starting from the default state, gives a
\* state equal to it in search, city, decade, status, sort and view.
C18_UrlRoundTrip ==
  doc = "archive" =>
    UrlFields(loadStateFromURL(ArchiveState, URLSearchParams(newURL(state))))
      = UrlFields(state)

C18_Witness ==
  /\ ArchiveUp
  /\ state.filters.search = <<"&", "=", " ", "+", "%">>
  /\ state.filters.city = JerseyCity
  /\ state.sort = "year-asc"
  /\ state.view = "list"
  /\ Len(state.publications) > 0

---------------------------------------------------------------------------
(* Claims on failures *)

\* C19: a failed data load is terminal and explicit: once the load has
\* failed the page shows its error state, and no later step of init and no
\* user event (filter, search, sort, reset) replaces the error display with a
\* results view or an empty-results view.
C19_FailedLoadStaysError ==
  (OnListPage /\ pc = "failed") =>
    /\ dom.resultsGrid = "error"
    /\ (IF doc = "archive" THEN dom.emptyState ELSE dom.emptyResults) = "hidden"

\* what the detail page reports when the data document loaded and holds no
\* record of the id asked for, for every such load
NotFoundReports ==
  {PublicationLoadedDom(PublicationState, PublicationDom, id, result) :
     <<id, result>> \in
       {ir \in (1..7) \X LoadResults :
          /\ ~ LoadFailed(ir[2])
          /\ findPublication(PublicationLoadData(PublicationState, ir[2]), ir[1]) = <<>>}}

\* C20: on the detail page "no record of the requested id" is reported as not
\* found and can be told from "the data document failed to load": the two
\* cases end in different states of the page.
C20_NotFoundDistinctFromLoadFailure ==
  (doc = "publication" /\ pc = "done" /\ lastWrite = "loadFailed")
    => dom \notin NotFoundReports

---------------------------------------------------------------------------
(* Claims on the featured records *)

\* the fill-gaps merge of a featured record and the base record of the same id
FillGaps(featured, base) ==
  [f \in DOMAIN featured \cup DOMAIN base |->
     IF f \in DOMAIN featured THEN featured[f] ELSE base[f]]

\* the record holds every field of merged that is one of fields, with its value
Carries(record, merged, fields) ==
  \A f \in DOMAIN merged \cap fields : f \in DOMAIN record /\ record[f] = merged[f]

\* the featured record of an id, from either list of the featured document
FeaturedOf(lists, id) == FindById(lists.historic \o lists.contemporary, id)

\* C21: when a record id exists in both the featured document and the base
\* document, the record the lookup produces takes, field by field, the
\* featured record's value when that field is present and the base record's
\* value otherwise; no field present in only the base record is lost.  On the
\* detail page the record is currentPublication; on the showcase it is each
\* historical card, for the fields a card has.
C21_LookupFillsGaps ==
  /\ (doc = "publication" /\ pc = "done") =>
       LET id == getPublicationId(location)
           featured == FeaturedOf(state.featuredPublications, id)
           base == FindById(state.allPublications, id)
       IN (Len(featured) > 0 /\ Len(base) > 0) =>
            /\ Len(state.currentPublication) > 0
            /\ Carries(state.currentPublication[1], FillGaps(featured[1], base[1]),
                       DOMAIN featured[1] \cup DOMAIN base[1])
  /\ (doc = "featured" /\ pc = "done") =>
       \A i \in 1..Len(dom.historical) :
         LET card == dom.historical[i]
             featured == FindById(state.featuredData.historic, card.id)
             base == FindById(state.publications, card.id)
         IN (Len(featured) > 0 /\ Len(base) > 0) =>
              Carries(card, FillGaps(featured[1], base[1]), DOMAIN card)

---------------------------------------------------------------------------
(* Claims on the debounced search *)

\* an input event reaches the debounced listener of the search box
SearchInputEvent == ArchiveSearchInput \/ AppSearchInput

\* the search handler runs
SearchHandlerRuns == ArchiveSearch \/ AppHandleSearch

\* C22: debounce.  Re-arming discards the pending call, so at most one call
\* is pending at any time and an input event leaves exactly one, with the
\* whole delay ahead of it; the search handler runs only as the callback of
\* that one timer, the delay after the last event, and once it has run no
\* call is pending, so a burst of events runs it once; and it does run:
\* unless input events keep arriving, the pending call is eventually gone.
C22_DebounceRunsOncePerBurst ==
  /\ [](Len(timeout.timers) <= 1)
  /\ [][SearchInputEvent => timeout'.timers = <<delay>>]_vars
  /\ [][SearchHandlerRuns => timeout.timers = <<delay>> /\ timeout'.timers = <<>>]_vars
  /\ [][(Len(timeout.timers) > 0 /\ timeout'.timers = <<>>) => SearchHandlerRuns]_vars
  /\ ([]<>(timeout.timers = <<>>) \/ []<><<SearchInputEvent>>_vars)

\* the handler has run before, further input has armed the timer again, and
\* the handler is about to run on the text typed last
C22_Witness ==
  /\ OnListPage
  /\ timeout.timers = <<delay>>
  /\ Len(searchInput) > 0
  /\ state.filters.search # <<>>
  /\ state.filters.search # toLowerCase(trim(searchInput))

---------------------------------------------------------------------------
(* Claims on exceptions *)

\* C23: filtering and sorting are total over the declared record model: for
\* every record whose optional fields are absent, null, or of any declared
\* shape (string or array for publishers and tags), applying any filter state
\* and any sort key completes without raising an exception: no handler of a
\* list page ends in a TypeError, and the search filter throws on no record
\* set and filter state the page reaches.
C23_FilterAndSortAreTotal ==
  OnListPage =>
    /\ lastWrite # "TypeError"
    /\ dom.uncaught = 0
    /\ ~ (IF doc = "archive"
          THEN ArchiveSearchFilterThrows(state.publications, state.filters)
          ELSE AppSearchFilterThrows(state.publications, state.filters))

---------------------------------------------------------------------------
(* Claims on the load *)

\* the page as it is before any script has written to it
BlankPage ==
  CASE doc = "archive" -> ArchiveDom
    [] doc = "app" -> AppDom
    [] doc = "timeline" -> TimelineDom
    [] doc = "publication" -> PublicationDom
    [] doc = "featured" -> FeaturedDom

\* the fetch of the data document has not completed
LoadPending == pc \in {"start", "loading"}

\* C24: on every page the data fetch is awaited before the first render, and
\* no filter, search, sort or load-more handler can execute on the engine
\* state between page start and completion of the load: while the load is
\* pending nothing has been rendered, no handler has written the filtered
\* list, and on the home page the filter state, the sort key and the page are
\* those of the page start.
C24_NoHandlerBeforeLoad ==
  LoadPending =>
    /\ dom = BlankPage
    /\ lastWrite = "none"
    /\ doc = "app" => state = AppState


---------------------------------------------------------------------------
(* Claims on the URL of the archive page *)

\* C25: on the archive page, once the listeners are attached, the query
\* string is the encoding of the state after every operation that changes
\* the state the URL carries (search, city, decade, status, sort, view
\* toggle, clearing one filter, resetting all); load more, the one operation
\* that raises the page, changes neither those fields nor the URL; so a
\* reload, which reads the state from the URL, restores the same filters,
\* sort and view, at page 1.
C25_UrlFollowsState ==
  /\ [][(ArchiveListening /\ UrlFields(state') # UrlFields(state)) =>
          location' = newURL(state')]_vars
  /\ [][(ArchiveListening /\ state'.page > state.page) =>
          /\ location' = location
          /\ UrlFields(state') = UrlFields(state)]_vars
  /\ [][(ArchiveListening /\ state' # state) =>
          LET reloaded == loadStateFromURL(ArchiveState, URLSearchParams(location'))
          IN  /\ UrlFields(reloaded) = UrlFields(state')
              /\ reloaded.page = 1]_vars


---------------------------------------------------------------------------
(* Claims on the home page and its pending fetch *)

\* C26: on the home page, in every state after the load has completed,
\* whatever filter clicks, searches and filterByDecade calls came while the
\* fetch was pending or after it, the filtered list holds exactly the loaded
\* records that the filters keep under the current filter state, and the
\* cards on show are records of that list.
C26_LoadedViewMatchesFilters ==
  (doc = "app" /\ pc = "ready") =>
    /\ Len(state.filteredPublications) = Len(Filtered(state.filters))
    /\ Ids(state.filteredPublications) = Ids(Filtered(state.filters))
    /\ Elems(dom.cards) \subseteq Ids(Filtered(state.filters))


---------------------------------------------------------------------------
(* Claims on the order of the list on show *)

\* record a comes strictly before record b under the sort key: by name or
\* city in the order of localeCompare, by founding year ascending with the
\* unknown years last, or descending with the unknown years last; a key the
\* sort does not know orders nothing
ComesBefore(key, a, b) ==
  CASE key = "name" -> localeCompare(TextOr(a, "name"), TextOr(b, "name")) < 0
    [] key = "city" -> localeCompare(TextOr(a, "city"), TextOr(b, "city")) < 0
    [] key = "year-asc" ->
         /\ HasYear(a, "yearFounded")
         /\ HasYear(b, "yearFounded") => a.yearFounded < b.yearFounded
    [] key = "year-desc" ->
         /\ HasYear(a, "yearFounded")
         /\ HasYear(b, "yearFounded") => a.yearFounded > b.yearFounded
    [] OTHER -> FALSE

\* no record of list stands after one it comes before
OrderedBy(list, key) ==
  \A i, j \in 1..Len(list) : i < j => ~ ComesBefore(key, list[j], list[i])

\* a result list has been rendered
ListOnShow == OnListPage /\ lastWrite \in {"loadData", "applyFilters", "sortPublications", "TypeError"}

\* C27: whenever a result list is on show, the first render after the load
\* included, the list is ordered by the current sort key (by name under the
\* default key "name").
C27_ShownListIsOrdered ==
  ListOnShow => OrderedBy(Matched, SortKey)


\* records of list with equal sort keys stand in the order the data document
\* has them
TiesInDatasetOrder(list, key) ==
  \A i, j \in 1..Len(list) :
    (i < j /\ KeysEqual(key, list[i], list[j]))
      => Position(state.publications, list[i].id) < Position(state.publications, list[j].id)

\* C28: the order on show depends on the loaded records, the filter state and
\* the sort key alone, not on the sort keys chosen before: whenever the list
\* on show has been sorted and holds the records the filters keep, it is
\* ordered by the current sort key with the records of equal keys in the
\* order of the data document, which fixes its sequence.
C28_OrderIndependentOfHistory ==
  (OnListPage /\ Sorted /\ Len(Matched) = Len(Filtered(state.filters))
     /\ Ids(Matched) = Ids(Filtered(state.filters)))
    => /\ OrderedBy(Matched, SortKey)
       /\ TiesInDatasetOrder(Matched, SortKey)


---------------------------------------------------------------------------
(* Claims on the two counts of a decade window *)

\* the record did not cease before it was founded
WellDated(pub) ==
  ("yearFounded" \in DOMAIN pub /\ "yearCeased" \in DOMAIN pub)
    => pub.yearCeased >= pub.yearFounded

\* the sum of the foundedCount of the first n windows
RECURSIVE FoundedTotal(_, _)
FoundedTotal(decadeData, n) ==
  IF n = 0 THEN 0 ELSE decadeData[n].foundedCount + FoundedTotal(decadeData, n - 1)

\* C29: when no loaded record ceased before it was founded, every decade
\* window has foundedCount <= activeCount, in the data and on its bar, and
\* each record is counted as founded in at most one window: the founded
\* counts add up to no more than the records that have a founding year, and
\* no record's founding year lies in two windows.
C29_FoundedWithinActive ==
  (TimelineDrawn /\ \A i \in 1..Len(state.publications) : WellDated(state.publications[i]))
    => /\ \A w \in 1..Len(state.decadeData) :
            /\ state.decadeData[w].foundedCount <= state.decadeData[w].activeCount
            /\ dom.bars[w].foundedCount <= dom.bars[w].activeCount
       /\ FoundedTotal(state.decadeData, Len(state.decadeData))
            <= Count(state.publications, LAMBDA pub : "yearFounded" \in DOMAIN pub)
       /\ \A i \in 1..Len(state.publications) :
            Cardinality({w \in 1..Len(state.decadeData) :
                           /\ "yearFounded" \in DOMAIN state.publications[i]
                           /\ state.publications[i].yearFounded >= state.decadeData[w].start
                           /\ state.publications[i].yearFounded <= state.decadeData[w].end}) <= 1

\* the 1920s hold two founded records, one of them with no ceasing year, and
\* a third record alive from before; the 2020s hold a record founded after
\* the current year
C29_Witness ==
  /\ TimelineDrawn
  /\ \A i \in 1..Len(state.publications) : WellDated(state.publications[i])
  /\ \E w \in 1..Len(state.decadeData) :
       /\ state.decadeData[w].foundedCount = 2
       /\ state.decadeData[w].activeCount = 3
       /\ \E i \in 1..Len(state.publications) :
            /\ "yearFounded" \in DOMAIN state.publications[i]
            /\ "yearCeased" \notin DOMAIN state.publications[i]
            /\ state.publications[i].yearFounded >= state.decadeData[w].start
            /\ state.publications[i].yearFounded <= state.decadeData[w].end
  /\ \E w \in 1..Len(state.decadeData) :
       /\ state.decadeData[w].label = "2020s"
       /\ state.decadeData[w].foundedCount = 1


---------------------------------------------------------------------------
(* Claims on clearing the search while a debounced call is pending *)

\* resetFilters runs, or the search chip is cleared
SearchCleared ==
  \/ ArchiveResetFilters \/ AppResetFilters
  \/ ((ArchiveClearFilter \/ AppRemoveFilter)
        /\ Len(state.filters.search) > 0 /\ state'.filters.search = <<>>)

\* C30: when resetFilters or the clearing of the search filter runs while a
\* debounced search call is pending, it empties the search box and the search
\* state and leaves the call pending; and the call, when it fires, stores the
\* trimmed, lower-cased text the search box holds at that moment, not the
\* text typed when the call was armed: empty after a reset, so the earlier
\* query does not come back.
C30_PendingCallReadsCurrentInput ==
  /\ [][(SearchCleared /\ Len(timeout.timers) > 0) =>
          /\ timeout' = timeout
          /\ searchInput' = <<>>
          /\ state'.filters.search = <<>>]_vars
  /\ [][SearchHandlerRuns =>
          /\ searchInput' = searchInput
          /\ state'.filters.search = toLowerCase(trim(searchInput))
          /\ searchInput = <<>> => state'.filters.search = <<>>]_vars

\* the archive page was opened with a city, a sort key and the list view in
\* its URL; a call is pending and the filters have been cleared: the city
\* filter is back at its default under the sort key of the URL, and the
\* search box and the search state are empty while the call waits
C30_Witness ==
  /\ doc = "archive" /\ pc = "ready"
  /\ state.sort = "year-desc"
  /\ state.filters.city = AllCity
  /\ state.filters.status = "all"
  /\ lastWrite = "applyFilters"
  /\ timeout.timers = <<delay>>
  /\ searchInput = <<>>
  /\ state.filters.search = <<>>
  /\ Len(state.publications) > 0

====
